---- MODULE Spec2Model ----
(***************************************************************************)
(* Tournament tracker: the bracket logic engine (lib/tournament/logic.ts,  *)
(* driven by TournamentView.handleWinner) and the storage-backed           *)
(* TournamentManager over LocalStorage.                                    *)
(*                                                                         *)
(* Teams are numbered 1..teamCount in seeding order (teams[i-1] of the     *)
(* source); NoTeam stands for an undefined winner.  A match id is the      *)
(* position at which the match was appended (crypto.randomUUID is only     *)
(* required to be unique).                                                 *)
(***************************************************************************)
EXTENDS Integers, Sequences, FiniteSets, TLC

VARIABLES
    teamCount,        \* number of teams handed to generateMatches
    tournamentType,   \* "knockout" | "double-elimination"
    matches,          \* matchesAtom: sequence of Match records
    currentRound,     \* currentRoundAtom
    driver,           \* "ui": winner buttons; "api": direct calls; "manager": TournamentManager
    store,            \* LocalStorage: the tables kept under 'tournament-data'
    managerSource,    \* which TournamentManager source is running
    lastCall,         \* history: the last updateMatch call, its outcome, whether its
                      \* fallback met an occupied slot, and the store before it
    callCount,        \* history: updateMatch calls made so far
    playersAtom,      \* the players in the order they were added
    tournamentSettingsAtom,  \* type and gameType (gameTypeAtom of the logic engine)
    teamsAtom,        \* the result of generateTeams kept by the caller
    tournamentCreatedAtom,   \* set once createTournament has succeeded
    setupCall,        \* history: the last generateTeams / createTournament call
    inFlight          \* the updateMatch invocations under way, each with its
                      \* position and the values it holds across its awaits

logicVars == <<teamCount, tournamentType, matches, currentRound>>

mgrVars == <<store, managerSource, lastCall, callCount>>

setupVars ==
    <<playersAtom, tournamentSettingsAtom, teamsAtom, tournamentCreatedAtom, setupCall>>

----------------------------------------------------------------------------
(* Bounds *)

MinTeams == 2
MaxTeams == 8

NoTeam == 0

----------------------------------------------------------------------------
(* Helpers on sequences *)

RECURSIVE SeqMax(_)
SeqMax(s) ==
    IF Len(s) = 0 THEN -1
    ELSE LET r == SeqMax(Tail(s)) IN IF Head(s) > r THEN Head(s) ELSE r

HasWinner(m) == m.winner # NoTeam

AllHaveWinners(s) == \A i \in 1..Len(s) : HasWinner(s[i])

----------------------------------------------------------------------------
(* logic.ts *)

RECURSIVE NextPowerOfTwoFrom(_, _)
NextPowerOfTwoFrom(p, teams) ==
    IF p < teams THEN NextPowerOfTwoFrom(2 * p, teams) ELSE p

NextPowerOfTwo(teams) == NextPowerOfTwoFrom(1, teams)

\* createSeededPositions filling the bracket in seeding order
createSeededPositions_Sequential(teams) ==
    LET size == NextPowerOfTwo(teams)
    IN  [k \in 1..size |-> k - 1]

\* createSeededPositions counting the odd seeds from the front as well
createSeededPositions_FromFront(teams) ==
    LET size == NextPowerOfTwo(teams)
    IN  [k \in 1..size |-> (k - 1) \div 2]

\* positions[i] of the source is createSeededPositions(n)[i + 1]
createSeededPositions(teams) ==
    LET size == NextPowerOfTwo(teams)
    IN  [k \in 1..size |->
            LET i == k - 1
                round == i + 1
            IN  IF round % 2 = 1 THEN i \div 2 ELSE size - 1 - (i \div 2)]

\* teamsWithByes after the fill loop: slot s holds the last team i with
\* positions[i] = s, or NoTeam (null)
RECURSIVE FillSlots(_, _, _, _)
FillSlots(arr, positions, i, teams) ==
    IF i >= teams THEN arr
    ELSE FillSlots([arr EXCEPT ![positions[i + 1]] = i + 1], positions, i + 1, teams)

teamsWithByes(teams) ==
    LET positions == createSeededPositions(teams)
    IN  FillSlots([s \in 0..(Len(positions) - 1) |-> NoTeam], positions, 0, teams)

NewMatch(id, t1, t2, round, bracket, winner) ==
    [id |-> id, team1 |-> t1, team2 |-> t2, round |-> round,
     bracket |-> bracket, winner |-> winner]

\* KnockoutPairs leaving its bye matches without a winner
RECURSIVE KnockoutPairs_UnresolvedBye(_, _, _, _)
KnockoutPairs_UnresolvedBye(slots, i, size, acc) ==
    IF i >= size THEN acc
    ELSE LET team1 == slots[i]
             team2 == slots[i + 1]
             id == Len(acc) + 1
         IN  IF team1 = NoTeam /\ team2 = NoTeam
                 THEN KnockoutPairs_UnresolvedBye(slots, i + 2, size, acc)
             ELSE IF team1 = NoTeam
                 THEN KnockoutPairs_UnresolvedBye(slots, i + 2, size,
                        Append(acc, NewMatch(id, team2, team2, 1, "none", NoTeam)))
             ELSE IF team2 = NoTeam
                 THEN KnockoutPairs_UnresolvedBye(slots, i + 2, size,
                        Append(acc, NewMatch(id, team1, team1, 1, "none", NoTeam)))
             ELSE KnockoutPairs_UnresolvedBye(slots, i + 2, size,
                        Append(acc, NewMatch(id, team1, team2, 1, "none", NoTeam)))

RECURSIVE KnockoutPairs(_, _, _, _)
KnockoutPairs(slots, i, size, acc) ==
    IF i >= size THEN acc
    ELSE LET team1 == slots[i]
             team2 == slots[i + 1]
             id == Len(acc) + 1
         IN  IF team1 = NoTeam /\ team2 = NoTeam
                 THEN KnockoutPairs(slots, i + 2, size, acc)
             ELSE IF team1 = NoTeam
                 THEN KnockoutPairs(slots, i + 2, size,
                        Append(acc, NewMatch(id, team2, team2, 1, "none", team2)))
             ELSE IF team2 = NoTeam
                 THEN KnockoutPairs(slots, i + 2, size,
                        Append(acc, NewMatch(id, team1, team1, 1, "none", team1)))
             ELSE KnockoutPairs(slots, i + 2, size,
                        Append(acc, NewMatch(id, team1, team2, 1, "none", NoTeam)))

generateKnockoutMatches(teams) ==
    IF teams = 0 THEN <<>>
    ELSE KnockoutPairs(teamsWithByes(teams), 0, NextPowerOfTwo(teams), <<>>)

generateDoubleEliminationMatches(teams) ==
    LET ko == generateKnockoutMatches(teams)
    IN  [i \in 1..Len(ko) |-> [ko[i] EXCEPT !.bracket = "winners"]]

generateMatches(teams, type) ==
    IF type = "knockout" THEN generateKnockoutMatches(teams)
    ELSE IF type = "double-elimination" THEN generateDoubleEliminationMatches(teams)
    ELSE generateKnockoutMatches(teams)

updateMatchWithWinner(ms, matchId, winner) ==
    [i \in 1..Len(ms) |->
        IF ms[i].id = matchId THEN [ms[i] EXCEPT !.winner = winner] ELSE ms[i]]

getMatchesForRound(ms, round) == SelectSeq(ms, LAMBDA m : m.round = round)

\* the set of rounds present (the source returns them sorted ascending)
getAllRounds(ms) == {ms[i].round : i \in 1..Len(ms)}

isByeMatch(m) == m.team1 = m.team2

\* PairWinners without the bye for an odd trailing winner
RECURSIVE PairWinners_NoBye(_, _, _, _, _)
PairWinners_NoBye(winners, i, nextRound, baseId, acc) ==
    IF i + 1 > Len(winners) THEN acc
    ELSE PairWinners_NoBye(winners, i + 2, nextRound, baseId,
            Append(acc, NewMatch(baseId + Len(acc) + 1, winners[i], winners[i + 1],
                                 nextRound, "none", NoTeam)))

\* pairs winners[i], winners[i+1]; an odd trailing winner gets a bye match
RECURSIVE PairWinners(_, _, _, _, _)
PairWinners(winners, i, nextRound, baseId, acc) ==
    IF i > Len(winners) THEN acc
    ELSE IF i + 1 <= Len(winners)
        THEN PairWinners(winners, i + 2, nextRound, baseId,
                Append(acc, NewMatch(baseId + Len(acc) + 1, winners[i], winners[i + 1],
                                     nextRound, "none", NoTeam)))
    ELSE IF Len(winners) % 2 # 0
        THEN PairWinners(winners, i + 2, nextRound, baseId,
                Append(acc, NewMatch(baseId + Len(acc) + 1, winners[i], winners[i],
                                     nextRound, "none", winners[i])))
    ELSE PairWinners(winners, i + 2, nextRound, baseId, acc)

\* generateNextRoundMatches pairing from the last winner backwards, so that
\* the odd one out is the first winner
generateNextRoundMatches_ByeForFirst(ms, round) ==
    LET currentRoundMatches == getMatchesForRound(ms, round)
        n == Len(currentRoundMatches)
        winners == [i \in 1..n |-> currentRoundMatches[n + 1 - i].winner]
    IN  IF ~AllHaveWinners(currentRoundMatches) THEN <<>>
        ELSE IF Len(winners) = 1 THEN <<>>
        ELSE PairWinners(winners, 1, round + 1, Len(ms), <<>>)

generateNextRoundMatches(ms, round) ==
    LET currentRoundMatches == getMatchesForRound(ms, round)
        winners == [i \in 1..Len(currentRoundMatches) |-> currentRoundMatches[i].winner]
    IN  IF ~AllHaveWinners(currentRoundMatches) THEN <<>>
        ELSE IF Len(winners) = 1 THEN <<>>
        ELSE PairWinners(winners, 1, round + 1, Len(ms), <<>>)

RECURSIVE calculateExpectedRoundsFrom(_, _, _)
calculateExpectedRoundsFrom(p, rounds, teams) ==
    IF p < teams THEN calculateExpectedRoundsFrom(2 * p, rounds + 1, teams) ELSE rounds

calculateExpectedRounds(teams) ==
    IF teams <= 1 THEN 0 ELSE calculateExpectedRoundsFrom(1, 0, teams)

FinalMatches(ms) == SelectSeq(ms, LAMBDA m : m.bracket = "final")

MaxRoundOf(ms) == SeqMax([i \in 1..Len(ms) |-> ms[i].round])

\* isTournamentComplete asking for the reset final in double elimination
isTournamentComplete_NeedsTwoFinals(ms, round, type) ==
    IF type = "knockout" THEN
        LET finalRoundMatches == getMatchesForRound(ms, MaxRoundOf(ms))
        IN  Len(finalRoundMatches) = 1 /\ HasWinner(finalRoundMatches[1])
    ELSE LET finalMatches == FinalMatches(ms)
         IN  Len(finalMatches) = 2 /\ HasWinner(finalMatches[2])

isTournamentComplete(ms, round, type) ==
    IF type = "knockout" THEN
        LET currentRoundMatches == getMatchesForRound(ms, round)
            finalRoundMatches == getMatchesForRound(ms, MaxRoundOf(ms))
        IN  \/ Len(currentRoundMatches) = 1 /\ HasWinner(currentRoundMatches[1])
            \/ Len(finalRoundMatches) = 1 /\ HasWinner(finalRoundMatches[1])
    ELSE IF type = "double-elimination" THEN
        LET finalMatches == FinalMatches(ms)
        IN  IF Len(finalMatches) = 1 THEN HasWinner(finalMatches[1])
            ELSE IF Len(finalMatches) = 2 THEN HasWinner(finalMatches[2])
            ELSE FALSE
    ELSE FALSE

\* getTournamentChampion returning the first slot of the deciding match
getTournamentChampion_Team1(ms, round, type) ==
    IF ~isTournamentComplete(ms, round, type) THEN NoTeam
    ELSE IF type = "knockout" THEN
        LET finalRoundMatches == getMatchesForRound(ms, MaxRoundOf(ms))
        IN  IF Len(finalRoundMatches) = 1 THEN finalRoundMatches[1].team1 ELSE NoTeam
    ELSE LET finalMatches == FinalMatches(ms)
         IN  IF Len(finalMatches) > 0 THEN finalMatches[Len(finalMatches)].team1
             ELSE NoTeam

getTournamentChampion(ms, round, type) ==
    IF ~isTournamentComplete(ms, round, type) THEN NoTeam
    ELSE IF type = "knockout" THEN
        LET finalRoundMatches == getMatchesForRound(ms, MaxRoundOf(ms))
        IN  IF Len(finalRoundMatches) = 1 /\ HasWinner(finalRoundMatches[1])
            THEN finalRoundMatches[1].winner ELSE NoTeam
    ELSE IF type = "double-elimination" THEN
        LET finalMatches == FinalMatches(ms)
        IN  IF Len(finalMatches) = 1 /\ HasWinner(finalMatches[1])
                THEN finalMatches[1].winner
            ELSE IF Len(finalMatches) = 2 /\ HasWinner(finalMatches[2])
                THEN finalMatches[2].winner
            ELSE NoTeam
    ELSE NoTeam

\* appends to acc the matches pairing ts[i], ts[i+1], ...; an unpaired trailing
\* team gets a bye match only when byeWhenSingle holds and ts has one element
RECURSIVE PairTeams(_, _, _, _, _, _, _)
PairTeams(ts, i, round, bracket, byeWhenSingle, baseId, acc) ==
    IF i > Len(ts) THEN acc
    ELSE IF i + 1 <= Len(ts)
        THEN PairTeams(ts, i + 2, round, bracket, byeWhenSingle, baseId,
                Append(acc, NewMatch(baseId + Len(acc) + 1, ts[i], ts[i + 1],
                                     round, bracket, NoTeam)))
    ELSE IF byeWhenSingle /\ Len(ts) = 1
        THEN PairTeams(ts, i + 2, round, bracket, byeWhenSingle, baseId,
                Append(acc, NewMatch(baseId + Len(acc) + 1, ts[i], ts[i],
                                     round, bracket, ts[i])))
    ELSE PairTeams(ts, i + 2, round, bracket, byeWhenSingle, baseId, acc)

WinnersOf(ms) == [i \in 1..Len(ms) |-> ms[i].winner]

LoserOf(m) == IF m.winner = m.team1 THEN m.team2 ELSE m.team1

\* the first match of the bracket in its highest round (Array.find), as a
\* sequence of length 0 (undefined) or 1
BracketFinal(ms, bracket) ==
    LET inBracket == SelectSeq(ms, LAMBDA m : m.bracket = bracket)
        last == SelectSeq(inBracket, LAMBDA m : m.round = MaxRoundOf(inBracket))
    IN  IF Len(last) = 0 THEN <<>> ELSE <<last[1]>>

\* lines 875-925: next winners-bracket round and the losers dropping out of it
WinnersBracketStep(ms, round, acc) ==
    LET currentWinnersMatches ==
            SelectSeq(ms, LAMBDA m : m.round = round /\ m.bracket = "winners")
        winnersAdvancing == WinnersOf(SelectSeq(currentWinnersMatches, HasWinner))
        droppingMatches ==
            SelectSeq(currentWinnersMatches, LAMBDA m : HasWinner(m) /\ ~isByeMatch(m))
        losersDropping == [i \in 1..Len(droppingMatches) |-> LoserOf(droppingMatches[i])]
        withWinners ==
            IF Len(winnersAdvancing) > 1
            THEN PairTeams(winnersAdvancing, 1, round + 1, "winners", FALSE, Len(ms), acc)
            ELSE acc
    IN  IF Len(currentWinnersMatches) = 0 THEN acc
        ELSE IF Len(losersDropping) > 0
            THEN PairTeams(losersDropping, 1, round + 1, "losers", TRUE, Len(ms), withWinners)
        ELSE withWinners

\* lines 927-947: next losers-bracket round
LosersBracketStep(ms, round, acc) ==
    LET currentLosersMatches ==
            SelectSeq(ms, LAMBDA m : m.round = round /\ m.bracket = "losers")
        losersAdvancing == WinnersOf(SelectSeq(currentLosersMatches, HasWinner))
    IN  IF Len(currentLosersMatches) > 0 /\ Len(losersAdvancing) > 1
        THEN PairTeams(losersAdvancing, 1, round + 1, "losers", FALSE, Len(ms), acc)
        ELSE acc

\* lines 949-981: the first final
FirstFinalStep(ms, round, acc) ==
    LET winnersBracketFinal == BracketFinal(ms, "winners")
        losersBracketFinal == BracketFinal(ms, "losers")
    IN  IF /\ Len(winnersBracketFinal) = 1 /\ HasWinner(winnersBracketFinal[1])
           /\ Len(losersBracketFinal) = 1 /\ HasWinner(losersBracketFinal[1])
           /\ Len(FinalMatches(ms)) = 0
        THEN Append(acc, NewMatch(Len(ms) + Len(acc) + 1, winnersBracketFinal[1].winner,
                                  losersBracketFinal[1].winner, round + 1, "final", NoTeam))
        ELSE acc

\* lines 983-998: the second final (bracket reset)
SecondFinalStep(ms, round, acc) ==
    LET finals == FinalMatches(ms)
    IN  IF /\ Len(finals) > 0
           /\ HasWinner(finals[1])
           /\ finals[1].winner = finals[1].team2
           /\ ~\E i \in 1..Len(ms) : ms[i].bracket = "final" /\ ms[i].id # finals[1].id
        THEN Append(acc, NewMatch(Len(ms) + Len(acc) + 1, finals[1].team1,
                                  finals[1].team2, round + 1, "final", NoTeam))
        ELSE acc

Stay(ms, round) == [matches |-> ms, nextRound |-> round]

\* the knockout branch returning the new round's matches without the earlier ones
advanceKnockout_OnlyNewMatches(ms, round) ==
    LET currentRoundMatches == getMatchesForRound(ms, round)
        nextRoundMatches == generateNextRoundMatches(ms, round)
    IN  IF ~AllHaveWinners(currentRoundMatches) THEN Stay(ms, round)
        ELSE IF isTournamentComplete(ms, round, "knockout") THEN Stay(ms, round)
        ELSE IF Len(nextRoundMatches) = 0 THEN Stay(ms, round)
        ELSE [matches |-> nextRoundMatches, nextRound |-> round + 1]

\* advanceTournament, knockout branch
advanceKnockout(ms, round) ==
    LET currentRoundMatches == getMatchesForRound(ms, round)
        nextRoundMatches == generateNextRoundMatches(ms, round)
    IN  IF ~AllHaveWinners(currentRoundMatches) THEN Stay(ms, round)
        ELSE IF isTournamentComplete(ms, round, "knockout") THEN Stay(ms, round)
        ELSE IF Len(nextRoundMatches) = 0 THEN Stay(ms, round)
        ELSE [matches |-> ms \o nextRoundMatches, nextRound |-> round + 1]

advanceDoubleElimination(ms, round) ==
    LET cur(bracket) == SelectSeq(ms, LAMBDA m : m.round = round /\ m.bracket = bracket)
        unfinished(bracket) == Len(cur(bracket)) > 0 /\ ~AllHaveWinners(cur(bracket))
        nextRoundMatches ==
            SecondFinalStep(ms, round,
              FirstFinalStep(ms, round,
                LosersBracketStep(ms, round,
                  WinnersBracketStep(ms, round, <<>>))))
    IN  IF unfinished("winners") \/ unfinished("losers") \/ unfinished("final")
            THEN Stay(ms, round)
        ELSE IF isTournamentComplete(ms, round, "double-elimination") THEN Stay(ms, round)
        ELSE IF Len(nextRoundMatches) = 0 THEN Stay(ms, round)
        ELSE [matches |-> ms \o nextRoundMatches, nextRound |-> round + 1]

advanceTournament(ms, round, type) ==
    IF type = "knockout" THEN advanceKnockout(ms, round)
    ELSE IF type = "double-elimination" THEN advanceDoubleElimination(ms, round)
    ELSE Stay(ms, round)

----------------------------------------------------------------------------
(* logic.ts: generateTeams.  A player is its position in the list of players  *)
(* as entered; a team is the sequence of its players.  Math.random is an      *)
(* ideal uniform draw: the keys drawn for the sort are pairwise distinct, so  *)
(* a draw is the ranking of the keys.                                         *)

\* Array.prototype.sort((a, b) => a.sort - b.sort), stable
RECURSIVE SortBySort(_)
SortBySort(items) ==
    IF Len(items) <= 1 THEN items
    ELSE LET least == CHOOSE i \in 1..Len(items) :
                        /\ \A j \in 1..Len(items) : items[i].sort <= items[j].sort
                        /\ \A j \in 1..(i - 1) : items[j].sort # items[i].sort
             rest == [j \in 1..(Len(items) - 1) |->
                        IF j < least THEN items[j] ELSE items[j + 1]]
         IN  <<items[least]>> \o SortBySort(rest)

\* the keys Math.random can give to n players
SortKeys(n) == Permutations(1..n)

\* players.map(player => ({ player, sort })).sort(...).map(({ player }) => player)
RandomizedCopy(ps, sort) ==
    LET keyed == [i \in 1..Len(ps) |-> [player |-> ps[i], sort |-> sort[i]]]
        sorted == SortBySort(keyed)
    IN  [i \in 1..Len(ps) |-> sorted[i].player]

\* the doubles loop that forgets a trailing unpaired player
RECURSIVE PairPlayers_DropUnpaired(_, _, _)
PairPlayers_DropUnpaired(playersCopy, i, acc) ==
    IF i >= Len(playersCopy) THEN acc
    ELSE IF i + 1 < Len(playersCopy)
        THEN PairPlayers_DropUnpaired(playersCopy, i + 2,
                 Append(acc, <<playersCopy[i + 1], playersCopy[i + 2]>>))
    ELSE PairPlayers_DropUnpaired(playersCopy, i + 2, acc)

\* for (let i = 0; i < playersCopy.length; i += 2): i is the source's 0-based index
RECURSIVE PairPlayers(_, _, _)
PairPlayers(playersCopy, i, acc) ==
    IF i >= Len(playersCopy) THEN acc
    ELSE IF i + 1 < Len(playersCopy)
        THEN PairPlayers(playersCopy, i + 2,
                 Append(acc, <<playersCopy[i + 1], playersCopy[i + 2]>>))
    ELSE PairPlayers(playersCopy, i + 2, Append(acc, <<playersCopy[i + 1]>>))

\* generateTeams(players, gameType, randomizePlayers); sort holds the keys drawn
generateTeams(ps, gameType, randomizePlayers, sort) ==
    LET playersCopy == IF randomizePlayers THEN RandomizedCopy(ps, sort) ELSE ps
    IN  IF gameType = "singles"
        THEN [i \in 1..Len(playersCopy) |-> <<playersCopy[i]>>]
        ELSE PairPlayers(playersCopy, 0, <<>>)

----------------------------------------------------------------------------
(* TournamentView.tsx, TournamentSetup: the state machine of the logic engine *)

TournamentTypes == {"knockout", "double-elimination"}

\* LocalStorage.getData with nothing stored: every table empty
EmptyStore == [stage |-> <<>>, participant |-> <<>>, match |-> <<>>]

NoCall == [outcome |-> "none"]

NoSetupCall == [op |-> "none", outcome |-> "none", randomizePlayers |-> FALSE, order |-> <<>>]

\* no TournamentManager tournament exists
ManagerIdle ==
    /\ store = EmptyStore
    /\ managerSource = "none"
    /\ lastCall = NoCall
    /\ callCount = 0

\* the atoms after handleGenerateTeams in singles: one team per player
TeamsGenerated ==
    /\ playersAtom = [i \in 1..teamCount |-> i]
    /\ tournamentSettingsAtom = [type |-> tournamentType, gameType |-> "singles"]
    /\ teamsAtom = generateTeams(playersAtom, "singles", FALSE, <<>>)
    /\ tournamentCreatedAtom = FALSE
    /\ setupCall = NoSetupCall
    /\ inFlight = <<>>

\* currentMatchesAtom
currentMatches == getMatchesForRound(matches, currentRound)

isComplete == isTournamentComplete(matches, currentRound, tournamentType)

getChampion == getTournamentChampion(matches, currentRound, tournamentType)

\* handleWinner(match, winner): the whole handler
handleWinner(match, winner) ==
    LET updatedMatches == updateMatchWithWinner(matches, match.id, winner)
        updatedCurrentRoundMatches == getMatchesForRound(updatedMatches, currentRound)
        roundComplete == AllHaveWinners(updatedCurrentRoundMatches)
        adv == advanceTournament(updatedMatches, currentRound, tournamentType)
    IN  IF roundComplete
        THEN /\ matches' = adv.matches
             /\ currentRound' = adv.nextRound
        ELSE /\ matches' = updatedMatches
             /\ currentRound' = currentRound

\* a winner button of the current-round card: rendered while the tournament is
\* not complete, for non-bye matches, and disabled once the match has a winner
WinnerButtonEnabled(match) ==
    /\ ~isComplete
    /\ match.round = currentRound
    /\ ~isByeMatch(match)
    /\ ~HasWinner(match)

HandleWinner ==
    /\ driver = "ui"
    /\ \E i \in 1..Len(matches) :
         /\ WinnerButtonEnabled(matches[i])
         /\ \E winner \in {matches[i].team1, matches[i].team2} :
              handleWinner(matches[i], winner)
    /\ UNCHANGED <<teamCount, tournamentType, driver>>
    /\ UNCHANGED mgrVars
    /\ UNCHANGED setupVars
    /\ UNCHANGED inFlight

\* handleGenerateTeams: matches from generateMatches, currentRound at its default 1
Init ==
    /\ teamCount \in MinTeams..MaxTeams
    /\ tournamentType \in TournamentTypes
    /\ matches = generateMatches(teamCount, tournamentType)
    /\ currentRound = 1
    /\ driver = "ui"
    /\ ManagerIdle
    /\ TeamsGenerated

Next == HandleWinner

vars == <<teamCount, tournamentType, matches, currentRound, driver,
          store, managerSource, lastCall, callCount,
          playersAtom, tournamentSettingsAtom, teamsAtom, tournamentCreatedAtom,
          setupCall, inFlight>>

Spec == Init /\ [][Next]_vars

----------------------------------------------------------------------------
(* The exported functions of lib/tournament called directly, as the tests do *)

MaxApiTeams == 4

\* the ids passed by the caller: those of the current round's matches, resolved
\* or not, and one id that no match has
ApiMatchIds ==
    {matches[i].id : i \in {j \in 1..Len(matches) : matches[j].round = currentRound}}
        \cup {Len(matches) + 1}

\* updateMatchWithWinner(matches, matchId, winner) with any team of the field,
\* the caller keeping the returned list
UpdateMatchWithWinnerCall ==
    /\ driver = "api"
    /\ \E matchId \in ApiMatchIds, winner \in 1..teamCount :
         matches' = updateMatchWithWinner(matches, matchId, winner)
    /\ UNCHANGED <<teamCount, tournamentType, currentRound, driver>>
    /\ UNCHANGED mgrVars
    /\ UNCHANGED setupVars
    /\ UNCHANGED inFlight

\* advanceTournament(matches, currentRound, type), the caller keeping the result
AdvanceTournamentCall ==
    /\ driver = "api"
    /\ LET adv == advanceTournament(matches, currentRound, tournamentType)
       IN  /\ matches' = adv.matches
           /\ currentRound' = adv.nextRound
    /\ UNCHANGED <<teamCount, tournamentType, driver>>
    /\ UNCHANGED mgrVars
    /\ UNCHANGED setupVars
    /\ UNCHANGED inFlight

InitApi ==
    /\ teamCount \in MinTeams..MaxApiTeams
    /\ tournamentType \in TournamentTypes
    /\ matches = generateMatches(teamCount, tournamentType)
    /\ currentRound = 1
    /\ driver = "api"
    /\ ManagerIdle
    /\ TeamsGenerated

NextApi == UpdateMatchWithWinnerCall \/ AdvanceTournamentCall

SpecApi == InitApi /\ [][NextApi]_vars

----------------------------------------------------------------------------
(* localStorage.ts: LocalStorage, rows of a table as a sequence in insertion order *)

\* select(table, filter) with a non-object filter: "if (filter)" skips a falsy
\* filter and returns every row; otherwise the row with that id, if any
select(rows, filter) ==
    IF filter = 0 THEN rows
    ELSE LET found == SelectSeq(rows, LAMBDA item : item.id = filter)
         IN  IF Len(found) = 0 THEN <<>> ELSE <<found[1]>>

\* { ...item, ...value }
Merge(item, value) ==
    [f \in DOMAIN item \cup DOMAIN value |->
        IF f \in DOMAIN value THEN value[f] ELSE item[f]]

\* update(table, filter, value) with a non-object filter: rows whose id equals it
update(rows, filter, value) ==
    [i \in 1..Len(rows) |->
        IF rows[i].id = filter THEN Merge(rows[i], value) ELSE rows[i]]

\* delete(table, filter) with a non-object filter: "if (filter)" sends a falsy
\* filter to the branch that empties the table
delete(rows, filter) ==
    IF filter = 0 THEN <<>>
    ELSE SelectSeq(rows, LAMBDA item : item.id # filter)

\* the values null and undefined of a field; every other value is a number >= 0
Null == -1
Undefined == -2

\* item[key]
Field(item, key) == IF key \in DOMAIN item THEN item[key] ELSE Undefined

\* Object.keys(filter).every(key => ...) of the object-filter branches
MatchesObject(item, filter) ==
    \A key \in DOMAIN filter :
        IF filter[key] = Null THEN Field(item, key) \in {Null, Undefined}
        ELSE Field(item, key) = filter[key]

\* select(table, filter) with an object filter
selectByObject(rows, filter) == SelectSeq(rows, LAMBDA item : MatchesObject(item, filter))

\* update(table, filter, value) with an object filter
updateByObject(rows, filter, value) ==
    [i \in 1..Len(rows) |->
        IF MatchesObject(rows[i], filter) THEN Merge(rows[i], value) ELSE rows[i]]

\* delete(table, filter) with an object filter
deleteByObject(rows, filter) == SelectSeq(rows, LAMBDA item : ~MatchesObject(item, filter))

----------------------------------------------------------------------------
(* TournamentManager (src/lib/tournamentManager.ts and its later revision) *)

MaxBracketRounds == 2
MaxCalls == 3
MaxPlayers == 4

\* the scores the result dialog sends: 1 for the chosen winner, 0 for the other
WinScore == 1
LoseScore == 0
Scores == {LoseScore, WinScore}

NoId == 0
NoScore == -1
StatusWaiting == 0
StatusReady == 2
StatusCompleted == 4

ManagerSources == {"tournamentManager.ts", "part_006"}

Opponent(id) == [id |-> id, score |-> NoScore, result |-> "none"]

RECURSIVE PowerOfTwo(_)
PowerOfTwo(k) == IF k = 0 THEN 1 ELSE 2 * PowerOfTwo(k - 1)

\* round and number of the idx-th match of a single-elimination stage
RECURSIVE RoundAndNumber(_, _, _)
RoundAndNumber(idx, r, rounds) ==
    LET inRound == PowerOfTwo(rounds - r)
    IN  IF idx <= inRound THEN [round |-> r, number |-> idx]
        ELSE RoundAndNumber(idx - inRound, r + 1, rounds)

\* the stage brackets-manager creates for 2^rounds seeded participants: round 1
\* bound and ready, later rounds waiting with both slots unbound
SingleEliminationStage(rounds) ==
    LET n == PowerOfTwo(rounds)
    IN  [idx \in 1..(n - 1) |->
            LET rn == RoundAndNumber(idx, 1, rounds)
            IN  [id |-> idx, group_id |-> 1, round_id |-> rn.round, number |-> rn.number,
                 status |-> IF rn.round = 1 THEN StatusReady ELSE StatusWaiting,
                 opponent1 |-> Opponent(IF rn.round = 1 THEN rn.number ELSE NoId),
                 opponent2 |-> Opponent(IF rn.round = 1 THEN n + 1 - rn.number ELSE NoId)]]

WinnersGroup == 1
LosersGroup == 2
FinalGroup == 3

\* round and number of the idx-th losers-bracket match: losers rounds 2j-1 and
\* 2j have 2^(rounds-1-j) matches each
RECURSIVE LoserRoundAndNumber(_, _, _)
LoserRoundAndNumber(idx, r, rounds) ==
    LET inRound == PowerOfTwo(rounds - 1 - ((r + 1) \div 2))
    IN  IF idx <= inRound THEN [round |-> r, number |-> idx]
        ELSE LoserRoundAndNumber(idx - inRound, r + 1, rounds)

\* the stage brackets-manager creates for 2^rounds participants (rounds >= 2)
\* with grandFinal 'double': the winners bracket (group 1), the losers bracket
\* (group 2) and two grand-final matches (group 3), inserted in that order;
\* round_id is the id of the round row, counted through the whole stage
DoubleEliminationStage(rounds) ==
    LET n == PowerOfTwo(rounds)
        winners == SingleEliminationStage(rounds)
        losers == [idx \in 1..(n - 2) |->
                     LET rn == LoserRoundAndNumber(idx, 1, rounds)
                     IN  [id |-> (n - 1) + idx, group_id |-> LosersGroup,
                          round_id |-> rounds + rn.round, number |-> rn.number,
                          status |-> StatusWaiting,
                          opponent1 |-> Opponent(NoId), opponent2 |-> Opponent(NoId)]]
        finals == [idx \in 1..2 |->
                     [id |-> (2 * n - 3) + idx, group_id |-> FinalGroup,
                      round_id |-> (3 * rounds - 2) + idx, number |-> 1,
                      status |-> StatusWaiting,
                      opponent1 |-> Opponent(NoId), opponent2 |-> Opponent(NoId)]]
    IN  winners \o losers \o finals

\* createTournament: store cleared, participants inserted with ids 1..n, stage created
CreatedStore(rounds, type) ==
    [stage |-> <<[id |-> 1, type |-> type]>>,
     participant |-> [i \in 1..PowerOfTwo(rounds) |-> [id |-> i]],
     match |-> IF type = "double_elimination" /\ rounds >= 2
               THEN DoubleEliminationStage(rounds)
               ELSE SingleEliminationStage(rounds)]

\* Array.prototype.sort((a, b) => a.number - b.number), stable
RECURSIVE SortByNumber(_)
SortByNumber(ms) ==
    IF Len(ms) <= 1 THEN ms
    ELSE LET least == CHOOSE i \in 1..Len(ms) :
                        /\ \A j \in 1..Len(ms) : ms[i].number <= ms[j].number
                        /\ \A j \in 1..(i - 1) : ms[j].number # ms[i].number
             rest == [j \in 1..(Len(ms) - 1) |-> IF j < least THEN ms[j] ELSE ms[j + 1]]
         IN  <<ms[least]>> \o SortByNumber(rest)

SlotOf(match, position) ==
    IF position = "opponent1" THEN match.opponent1 ELSE match.opponent2

SlotPatch(position, playerId) ==
    IF position = "opponent1" THEN [opponent1 |-> Opponent(playerId)]
    ELSE [opponent2 |-> Opponent(playerId)]

\* the "now ready" step without its write of status 2
MarkReadyIfBound_Never(rows, matchId) == rows

\* the "now ready" step shared by both revisions: re-read the match and set it
\* ready when both opponents are present and its status is 0
MarkReadyIfBound(rows, matchId) ==
    LET updatedMatch == select(rows, matchId)
    IN  IF /\ Len(updatedMatch) > 0
           /\ updatedMatch[1].opponent1.id # NoId
           /\ updatedMatch[1].opponent2.id # NoId
           /\ updatedMatch[1].status = StatusWaiting
        THEN update(rows, updatedMatch[1].id, [status |-> StatusReady])
        ELSE rows

\* placePlayerInMatch without its "don't overwrite existing player" check
placePlayerInMatch_Overwrite(rows, match, playerId, position) ==
    IF position = "opponent1" /\ match.opponent2.id = playerId THEN rows
    ELSE IF position = "opponent2" /\ match.opponent1.id = playerId THEN rows
    ELSE MarkReadyIfBound(update(rows, match.id, SlotPatch(position, playerId)), match.id)

\* placePlayerInMatch(match, playerId, position); match is the caller's copy
placePlayerInMatch(rows, match, playerId, position) ==
    IF position = "opponent1" /\ match.opponent2.id = playerId THEN rows
    ELSE IF position = "opponent2" /\ match.opponent1.id = playerId THEN rows
    ELSE IF SlotOf(match, position).id # NoId THEN rows
    ELSE MarkReadyIfBound(update(rows, match.id, SlotPatch(position, playerId)), match.id)

\* the winner's position with the two slots exchanged
PositionFor_Swapped(completedMatch) ==
    IF (completedMatch.number - 1) % 2 = 0 THEN "opponent2" ELSE "opponent1"

PositionFor(completedMatch) ==
    IF (completedMatch.number - 1) % 2 = 0 THEN "opponent1" ELSE "opponent2"

\* advancePlayersSingleElimination(completedMatch, winnerId)
advancePlayersSingleElimination(rows, completedMatch, winnerId) ==
    LET nextRoundMatches ==
            SortByNumber(SelectSeq(rows,
                LAMBDA m : m.round_id = completedMatch.round_id + 1))
        targetMatchIndex == (completedMatch.number - 1) \div 2
    IN  IF winnerId = NoId THEN rows
        ELSE IF Len(nextRoundMatches) = 0 THEN rows
        ELSE IF targetMatchIndex + 1 > Len(nextRoundMatches) THEN rows
        ELSE placePlayerInMatch(rows, nextRoundMatches[targetMatchIndex + 1], winnerId,
                                PositionFor(completedMatch))

\* advanceWinnerToNextRound(completedMatchId, winnerId) of tournamentManager.ts
advanceWinnerToNextRound(rows, completedMatchId, winnerId) ==
    LET found == SelectSeq(rows, LAMBDA m : m.id = completedMatchId)
        completedMatch == found[1]
        sortedNextRoundMatches ==
            SortByNumber(SelectSeq(rows,
                LAMBDA m : m.round_id = completedMatch.round_id + 1))
        semiMatchIndex == (completedMatch.number - 1) \div 2
        targetSemiMatch == sortedNextRoundMatches[semiMatchIndex + 1]
        targetPosition == PositionFor(completedMatch)
    IN  IF winnerId = NoId THEN rows
        ELSE IF Len(found) = 0 THEN rows
        ELSE IF Len(sortedNextRoundMatches) = 0 THEN rows
        ELSE IF semiMatchIndex >= Len(sortedNextRoundMatches) THEN rows
        ELSE IF SlotOf(targetSemiMatch, targetPosition).id # NoId THEN rows
        ELSE MarkReadyIfBound(
                update(rows, targetSemiMatch.id, SlotPatch(targetPosition, winnerId)),
                targetSemiMatch.id)

\* Array.prototype.sort((a, b) => a.round_id - b.round_id), stable
RECURSIVE SortByRound(_)
SortByRound(ms) ==
    IF Len(ms) <= 1 THEN ms
    ELSE LET least == CHOOSE i \in 1..Len(ms) :
                        /\ \A j \in 1..Len(ms) : ms[i].round_id <= ms[j].round_id
                        /\ \A j \in 1..(i - 1) : ms[j].round_id # ms[i].round_id
             rest == [j \in 1..(Len(ms) - 1) |-> IF j < least THEN ms[j] ELSE ms[j + 1]]
         IN  <<ms[least]>> \o SortByRound(rest)

\* a.round_id - b.round_id || a.number - b.number
RoundThenNumberBefore(a, b) ==
    \/ a.round_id < b.round_id
    \/ a.round_id = b.round_id /\ a.number < b.number

\* Array.prototype.sort((a, b) => a.round_id - b.round_id || a.number - b.number)
RECURSIVE SortByRoundThenNumber(_)
SortByRoundThenNumber(ms) ==
    IF Len(ms) <= 1 THEN ms
    ELSE LET least == CHOOSE i \in 1..Len(ms) :
                        /\ \A j \in 1..Len(ms) : ~RoundThenNumberBefore(ms[j], ms[i])
                        /\ \A j \in 1..(i - 1) : RoundThenNumberBefore(ms[i], ms[j])
             rest == [j \in 1..(Len(ms) - 1) |-> IF j < least THEN ms[j] ELSE ms[j + 1]]
         IN  <<ms[least]>> \o SortByRoundThenNumber(rest)

\* Math.max(...ms.map(m => m.round_id)); -Infinity (here -1) for no match
MaxRound(ms) ==
    IF Len(ms) = 0 THEN -1
    ELSE CHOOSE r \in {ms[i].round_id : i \in 1..Len(ms)} :
            \A i \in 1..Len(ms) : ms[i].round_id <= r

\* the first free slot of a match: opponent1, else opponent2, else none
FirstFreeSlot(match) ==
    IF match.opponent1.id = NoId THEN "opponent1"
    ELSE IF match.opponent2.id = NoId THEN "opponent2"
    ELSE "none"

\* "if (!m.opponent1?.id) place in opponent1 else if (!m.opponent2?.id) place in
\* opponent2 else log that the match is full"
PlaceInFirstFreeSlot(rows, match, playerId) ==
    IF FirstFreeSlot(match) = "none" THEN rows
    ELSE placePlayerInMatch(rows, match, playerId, FirstFreeSlot(match))

\* advanceWinnerInWinnersBracket(completedMatch, winnerId, allMatches); rows is
\* what the storage holds when it runs, allMatches what was read before
advanceWinnerInWinnersBracket(rows, completedMatch, winnerId, allMatches) ==
    LET nextWinnersBracketMatches ==
            SelectSeq(allMatches, LAMBDA m : /\ m.group_id = WinnersGroup
                                             /\ m.round_id = completedMatch.round_id + 1)
        grandFinalGroupId ==
            CHOOSE g \in {allMatches[i].group_id : i \in 1..Len(allMatches)} :
                \A i \in 1..Len(allMatches) : allMatches[i].group_id <= g
        grandFinalMatches ==
            SelectSeq(allMatches, LAMBDA m : m.group_id = grandFinalGroupId)
        targetMatchIndex == (completedMatch.number - 1) \div 2
        sorted == SortByNumber(nextWinnersBracketMatches)
    IN  IF winnerId = NoId THEN rows
        ELSE IF Len(nextWinnersBracketMatches) = 0
        THEN IF Len(allMatches) = 0 THEN rows
             ELSE PlaceInFirstFreeSlot(rows, grandFinalMatches[1], winnerId)
        ELSE IF targetMatchIndex + 1 > Len(sorted) THEN rows
        ELSE placePlayerInMatch(rows, sorted[targetMatchIndex + 1], winnerId,
                                PositionFor(completedMatch))

\* findAndPlaceInAvailableLosersBracketMatch(loserId, losersBracketMatches)
findAndPlaceInAvailableLosersBracketMatch(rows, loserId, losersBracketMatches) ==
    LET sortedMatches == SortByRoundThenNumber(losersBracketMatches)
        open == SelectSeq(sortedMatches, LAMBDA m : FirstFreeSlot(m) # "none")
    IN  IF Len(open) = 0 THEN rows
        ELSE PlaceInFirstFreeSlot(rows, open[1], loserId)

\* advanceLoserToLosersBracket(completedMatch, loserId, allMatches)
advanceLoserToLosersBracket(rows, completedMatch, loserId, allMatches) ==
    LET losersBracketMatches ==
            SortByRoundThenNumber(SelectSeq(allMatches,
                LAMBDA m : m.group_id = LosersGroup))
        maxWinnersRound ==
            MaxRound(SelectSeq(allMatches, LAMBDA m : m.group_id = WinnersGroup))
        maxLosersRound == MaxRound(losersBracketMatches)
        losersBracketFinalMatches ==
            SelectSeq(losersBracketMatches, LAMBDA m : m.round_id = maxLosersRound)
        firstRoundLosersMatches ==
            SelectSeq(losersBracketMatches, LAMBDA m : m.round_id = 1)
        targetMatchIndex == (completedMatch.number - 1) \div 2
        targetRound == (completedMatch.round_id - 1) * 2 + 1
        targetRoundMatches ==
            SelectSeq(losersBracketMatches, LAMBDA m : m.round_id = targetRound)
        available == SelectSeq(targetRoundMatches, LAMBDA m : FirstFreeSlot(m) # "none")
    IN  IF loserId = NoId THEN rows
        ELSE IF completedMatch.round_id = maxWinnersRound
        THEN IF Len(losersBracketFinalMatches) = 0 THEN rows
             ELSE PlaceInFirstFreeSlot(rows, losersBracketFinalMatches[1], loserId)
        ELSE IF completedMatch.round_id = 1
        THEN IF targetMatchIndex + 1 <= Len(firstRoundLosersMatches)
             THEN placePlayerInMatch(rows, firstRoundLosersMatches[targetMatchIndex + 1],
                                     loserId, PositionFor(completedMatch))
             ELSE findAndPlaceInAvailableLosersBracketMatch(rows, loserId,
                                                            losersBracketMatches)
        ELSE IF Len(targetRoundMatches) > 0
        THEN IF Len(available) = 0 THEN rows
             ELSE PlaceInFirstFreeSlot(rows, available[1], loserId)
        ELSE findAndPlaceInAvailableLosersBracketMatch(rows, loserId, losersBracketMatches)

\* advanceWinnerInLosersBracket(completedMatch, winnerId, allMatches)
advanceWinnerInLosersBracket(rows, completedMatch, winnerId, allMatches) ==
    LET nextLosersBracketMatches ==
            SelectSeq(allMatches, LAMBDA m : /\ m.group_id = LosersGroup
                                             /\ m.round_id = completedMatch.round_id + 1)
        grandFinalMatches ==
            SortByRound(SelectSeq(allMatches, LAMBDA m : m.group_id = FinalGroup))
        targetMatch == SortByNumber(nextLosersBracketMatches)[1]
    IN  IF winnerId = NoId THEN rows
        ELSE IF Len(nextLosersBracketMatches) = 0
        THEN IF Len(grandFinalMatches) = 0 THEN rows
             ELSE IF grandFinalMatches[1].opponent2.id # NoId THEN rows
             ELSE placePlayerInMatch(rows, grandFinalMatches[1], winnerId, "opponent2")
        ELSE placePlayerInMatch(rows, targetMatch, winnerId,
                                IF targetMatch.opponent1.id = NoId
                                THEN "opponent1" ELSE "opponent2")

\* handleGrandFinalCompletion resetting the bracket whoever won the first final
handleGrandFinalCompletion_AnyWinner(rows, completedMatch, winnerId, allMatches) ==
    LET grandFinalMatches ==
            SortByRound(SelectSeq(allMatches, LAMBDA m : m.group_id = FinalGroup))
        secondGrandFinal == grandFinalMatches[2]
    IN  IF winnerId = NoId THEN rows
        ELSE IF ~(Len(grandFinalMatches) > 1 /\ completedMatch.id = grandFinalMatches[1].id)
        THEN rows
        ELSE IF secondGrandFinal.opponent1.id # NoId \/ secondGrandFinal.opponent2.id # NoId
        THEN rows
        ELSE placePlayerInMatch(
                placePlayerInMatch(rows, secondGrandFinal,
                                   completedMatch.opponent1.id, "opponent1"),
                secondGrandFinal, winnerId, "opponent2")

\* handleGrandFinalCompletion(completedMatch, winnerId, allMatches): the bracket
\* reset; both placements are given the second final as it was read before
handleGrandFinalCompletion(rows, completedMatch, winnerId, allMatches) ==
    LET grandFinalMatches ==
            SortByRound(SelectSeq(allMatches, LAMBDA m : m.group_id = FinalGroup))
        secondGrandFinal == grandFinalMatches[2]
    IN  IF winnerId = NoId THEN rows
        ELSE IF ~(Len(grandFinalMatches) > 1 /\ completedMatch.id = grandFinalMatches[1].id)
        THEN rows
        ELSE IF completedMatch.opponent2.id # winnerId THEN rows
        ELSE IF secondGrandFinal.opponent1.id # NoId \/ secondGrandFinal.opponent2.id # NoId
        THEN rows
        ELSE placePlayerInMatch(
                placePlayerInMatch(rows, secondGrandFinal,
                                   completedMatch.opponent1.id, "opponent1"),
                secondGrandFinal, winnerId, "opponent2")

\* advancePlayersDoubleElimination(completedMatch, winnerId, loserId): the matches
\* are read once, at the start
advancePlayersDoubleElimination(rows, completedMatch, winnerId, loserId) ==
    LET allMatches == rows
    IN  IF completedMatch.group_id = FinalGroup
        THEN handleGrandFinalCompletion(rows, completedMatch, winnerId, allMatches)
        ELSE IF completedMatch.group_id = WinnersGroup
        THEN advanceLoserToLosersBracket(
                advanceWinnerInWinnersBracket(rows, completedMatch, winnerId, allMatches),
                completedMatch, loserId, allMatches)
        ELSE advanceWinnerInLosersBracket(rows, completedMatch, winnerId, allMatches)

\* the patch both revisions write in the fallback: status 4 and both results
ResultPatch(match, opponent1Score, opponent2Score) ==
    LET opponent1Wins == opponent1Score > opponent2Score
    IN  [status |-> StatusCompleted,
         opponent1 |-> [match.opponent1 EXCEPT
                          !.score = opponent1Score,
                          !.result = IF opponent1Wins THEN "win" ELSE "loss"],
         opponent2 |-> [match.opponent2 EXCEPT
                          !.score = opponent2Score,
                          !.result = IF opponent1Wins THEN "loss" ELSE "win"]]

\* manager.update.match(updateData) of brackets-manager when it does not throw:
\* the match with that id is completed with the given results and its winner
\* moves on to the next round
LibraryUpdateMatch(rows, matchId, opponent1Score, opponent2Score) ==
    LET found == SelectSeq(rows, LAMBDA m : m.id = matchId)
        stored == found[1]
        winnerId == IF opponent1Score > opponent2Score
                    THEN stored.opponent1.id ELSE stored.opponent2.id
    IN  IF Len(found) = 0 THEN rows
        ELSE advancePlayersSingleElimination(
                update(rows, matchId, ResultPatch(stored, opponent1Score, opponent2Score)),
                stored, winnerId)

\* manager.update.match(updateData) on a double-elimination stage when it does
\* not throw: the match is completed with the given results and its winner and
\* loser move on
LibraryUpdateMatchDouble(rows, matchId, opponent1Score, opponent2Score) ==
    LET found == SelectSeq(rows, LAMBDA m : m.id = matchId)
        stored == found[1]
        opponent1Wins == opponent1Score > opponent2Score
    IN  IF Len(found) = 0 THEN rows
        ELSE advancePlayersDoubleElimination(
                update(rows, matchId, ResultPatch(stored, opponent1Score, opponent2Score)),
                stored,
                IF opponent1Wins THEN stored.opponent1.id ELSE stored.opponent2.id,
                IF opponent1Wins THEN stored.opponent2.id ELSE stored.opponent1.id)

\* stage[0]?.type
StageType(st) == IF Len(st.stage) = 0 THEN "none" ELSE st.stage[1].type

Thrown(st, error) == [store |-> st, outcome |-> error]

Returned(st, rows) == [store |-> [st EXCEPT !.match = rows], outcome |-> "ok"]

\* updateMatch without its completed-match check
IsCompleted_Never(match) == FALSE

\* the completed-match check of updateMatch
IsCompleted(match) == match.status = StatusCompleted

\* updateMatch of the later revision (part_006)
updateMatch(st, matchId, opponent1Score, opponent2Score, libraryThrows) ==
    LET currentMatch == select(st.match, matchId)
        match == currentMatch[1]
        opponent1Wins == opponent1Score > opponent2Score
        winnerId == IF opponent1Wins THEN match.opponent1.id ELSE match.opponent2.id
        loserId == IF opponent1Wins THEN match.opponent2.id ELSE match.opponent1.id
        recorded == update(st.match, matchId,
                           ResultPatch(match, opponent1Score, opponent2Score))
    IN  IF Len(currentMatch) = 0 THEN Thrown(st, "not found")
        ELSE IF IsCompleted(match) THEN Thrown(st, "completed")
        ELSE IF ~libraryThrows
            THEN IF StageType(st) = "double_elimination"
                 THEN Returned(st, advancePlayersDoubleElimination(
                                     LibraryUpdateMatchDouble(st.match, matchId,
                                         opponent1Score, opponent2Score),
                                     match, winnerId, loserId))
                 ELSE Returned(st, LibraryUpdateMatch(st.match, matchId,
                                                      opponent1Score, opponent2Score))
        ELSE IF StageType(st) = "double_elimination"
            THEN Returned(st, advancePlayersDoubleElimination(recorded, match,
                                                              winnerId, loserId))
        ELSE Returned(st, advancePlayersSingleElimination(recorded, match, winnerId))

\* updateMatch of src/lib/tournamentManager.ts
updateMatchForcingReady(st, matchId, opponent1Score, opponent2Score, libraryThrows) ==
    LET currentMatch == select(st.match, matchId)
        match == currentMatch[1]
        opponent1Wins == opponent1Score > opponent2Score
        winnerId == IF opponent1Wins THEN match.opponent1.id ELSE match.opponent2.id
        readied == IF match.status # StatusReady
                   THEN update(st.match, matchId, [status |-> StatusReady])
                   ELSE st.match
    IN  IF Len(currentMatch) = 0 THEN Thrown(st, "not found")
        ELSE IF IsCompleted(match) THEN Thrown(st, "completed")
        ELSE IF ~libraryThrows
            THEN Returned(st, LibraryUpdateMatch(readied, matchId,
                                                 opponent1Score, opponent2Score))
        ELSE Returned(st, advanceWinnerToNextRound(
                            update(readied, matchId,
                                   ResultPatch(match, opponent1Score, opponent2Score)),
                            matchId, winnerId))

\* the fallback's advancement finds its destination slot holding another
\* participant: the "already occupied" branches, which warn and return
SlotOccupied(source, rows, matchId, opponent1Score, opponent2Score) ==
    LET currentMatch == select(rows, matchId)
        match == currentMatch[1]
        winnerId == IF opponent1Score > opponent2Score
                    THEN match.opponent1.id ELSE match.opponent2.id
        completed == IF source = "part_006" THEN <<match>>
                     ELSE SelectSeq(rows, LAMBDA m : m.id = matchId)
        nextRoundMatches ==
            SortByNumber(SelectSeq(rows,
                LAMBDA m : m.round_id = completed[1].round_id + 1))
        targetMatchIndex == (completed[1].number - 1) \div 2
    IN  /\ Len(currentMatch) > 0
        /\ winnerId # NoId
        /\ Len(completed) > 0
        /\ targetMatchIndex + 1 <= Len(nextRoundMatches)
        /\ SlotOf(nextRoundMatches[targetMatchIndex + 1],
                  PositionFor(completed[1])).id \notin {NoId, winnerId}

\* the ids a caller passes: 0, every stored id, and one id beyond them
CallerMatchIds == 0..(Len(store.match) + 1)

\* one updateMatch call running to completion
UpdateMatch ==
    /\ driver = "manager"
    /\ callCount < MaxCalls
    /\ callCount' = callCount + 1
    /\ \E matchId \in CallerMatchIds, opponent1Score \in Scores,
          opponent2Score \in Scores, libraryThrows \in BOOLEAN :
         LET r == IF managerSource = "part_006"
                  THEN updateMatch(store, matchId, opponent1Score, opponent2Score,
                                   libraryThrows)
                  ELSE updateMatchForcingReady(store, matchId, opponent1Score,
                                               opponent2Score, libraryThrows)
         IN  /\ store' = r.store
             /\ lastCall' = [outcome |-> r.outcome, matchId |-> matchId,
                             opponent1Score |-> opponent1Score,
                             opponent2Score |-> opponent2Score,
                             collision |-> /\ r.outcome = "ok"
                                           /\ libraryThrows
                                           /\ SlotOccupied(managerSource, store.match,
                                                  matchId, opponent1Score, opponent2Score),
                             before |-> store]
    /\ UNCHANGED managerSource
    /\ UNCHANGED <<teamCount, tournamentType, matches, currentRound, driver>>
    /\ UNCHANGED setupVars
    /\ UNCHANGED inFlight

\* the state createTournament leaves for a single-elimination stage
InitManager ==
    /\ driver = "manager"
    /\ managerSource \in ManagerSources
    /\ \E rounds \in 1..MaxBracketRounds :
         /\ store = CreatedStore(rounds, "single_elimination")
         /\ playersAtom = [i \in 1..PowerOfTwo(rounds) |-> i]
    /\ tournamentSettingsAtom = [type |-> "single_elimination", gameType |-> "singles"]
    /\ teamsAtom = <<>>
    /\ tournamentCreatedAtom = TRUE
    /\ setupCall = NoSetupCall
    /\ inFlight = <<>>
    /\ lastCall = NoCall
    /\ callCount = 0
    /\ teamCount = 0
    /\ tournamentType = "none"
    /\ matches = <<>>
    /\ currentRound = 0

NextManager == UpdateMatch

SpecManager == InitManager /\ [][NextManager]_vars

\* either engine: a tournament of the logic engine played through the view,
\* or one created through TournamentManager
InitEngines == Init \/ InitManager

NextEngines == HandleWinner \/ UpdateMatch

SpecEngines == InitEngines /\ [][NextEngines]_vars

----------------------------------------------------------------------------
(* updateMatch with a storage write that fails: LocalStorage.saveData        *)
(* (localStorage.setItem) throws, the write is not stored and the error      *)
(* leaves the storage call.  A write is the stored rows after it and whether *)
(* an error of it is caught inside updateMatch.                              *)

MaxFaultCalls == 2

MaxWrites == 4

Write(rows, caught) == [rows |-> rows, caught |-> caught]

\* the writes of MarkReadyIfBound after the slot write: none or the status write
SlotWrites(rows, targetId, position, playerId, caught) ==
    LET slotted == update(rows, targetId, SlotPatch(position, playerId))
        readied == MarkReadyIfBound(slotted, targetId)
    IN  IF readied = slotted THEN <<Write(slotted, caught)>>
        ELSE <<Write(slotted, caught), Write(readied, caught)>>

\* the storage writes of placePlayerInMatch(match, playerId, position)
placePlayerInMatchWrites(rows, match, playerId, position) ==
    IF position = "opponent1" /\ match.opponent2.id = playerId THEN <<>>
    ELSE IF position = "opponent2" /\ match.opponent1.id = playerId THEN <<>>
    ELSE IF SlotOf(match, position).id # NoId THEN <<>>
    ELSE SlotWrites(rows, match.id, position, playerId, FALSE)

\* the storage writes of advancePlayersSingleElimination(completedMatch, winnerId)
advancePlayersSingleEliminationWrites(rows, completedMatch, winnerId) ==
    LET nextRoundMatches ==
            SortByNumber(SelectSeq(rows,
                LAMBDA m : m.round_id = completedMatch.round_id + 1))
        targetMatchIndex == (completedMatch.number - 1) \div 2
    IN  IF winnerId = NoId THEN <<>>
        ELSE IF Len(nextRoundMatches) = 0 THEN <<>>
        ELSE IF targetMatchIndex + 1 > Len(nextRoundMatches) THEN <<>>
        ELSE placePlayerInMatchWrites(rows, nextRoundMatches[targetMatchIndex + 1],
                                      winnerId, PositionFor(completedMatch))

\* the storage writes of advanceWinnerToNextRound of tournamentManager.ts, whose
\* errors updateMatch catches and logs
advanceWinnerToNextRoundWrites(rows, completedMatchId, winnerId) ==
    LET found == SelectSeq(rows, LAMBDA m : m.id = completedMatchId)
        completedMatch == found[1]
        sortedNextRoundMatches ==
            SortByNumber(SelectSeq(rows,
                LAMBDA m : m.round_id = completedMatch.round_id + 1))
        semiMatchIndex == (completedMatch.number - 1) \div 2
        targetSemiMatch == sortedNextRoundMatches[semiMatchIndex + 1]
        targetPosition == PositionFor(completedMatch)
    IN  IF winnerId = NoId THEN <<>>
        ELSE IF Len(found) = 0 THEN <<>>
        ELSE IF Len(sortedNextRoundMatches) = 0 THEN <<>>
        ELSE IF semiMatchIndex >= Len(sortedNextRoundMatches) THEN <<>>
        ELSE IF SlotOf(targetSemiMatch, targetPosition).id # NoId THEN <<>>
        ELSE SlotWrites(rows, targetSemiMatch.id, targetPosition, winnerId, TRUE)

\* the storage writes updateMatch itself makes for a match that passed its
\* checks, in order: part_006 writes only in the fallback; tournamentManager.ts
\* first forces the status to ready
updateMatchWrites(source, rows, match, matchId, opponent1Score, opponent2Score, libraryThrows) ==
    LET opponent1Wins == opponent1Score > opponent2Score
        winnerId == IF opponent1Wins THEN match.opponent1.id ELSE match.opponent2.id
        forced == IF source = "tournamentManager.ts" /\ match.status # StatusReady
                  THEN <<Write(update(rows, matchId, [status |-> StatusReady]), FALSE)>>
                  ELSE <<>>
        readied == IF Len(forced) = 0 THEN rows ELSE forced[1].rows
        recorded == update(readied, matchId,
                           ResultPatch(match, opponent1Score, opponent2Score))
    IN  IF ~libraryThrows THEN forced
        ELSE IF source = "part_006"
            THEN <<Write(recorded, FALSE)>>
                 \o advancePlayersSingleEliminationWrites(recorded, match, winnerId)
        ELSE forced \o <<Write(recorded, FALSE)>>
             \o advanceWinnerToNextRoundWrites(recorded, matchId, winnerId)

\* one updateMatch call in which the storage write number failAt fails (no
\* write fails when the call makes fewer writes)
UpdateMatchWriteFails ==
    /\ driver = "manager"
    /\ callCount < MaxFaultCalls
    /\ callCount' = callCount + 1
    /\ \E matchId \in CallerMatchIds, opponent1Score \in Scores,
          opponent2Score \in Scores, libraryThrows \in BOOLEAN, failAt \in 1..MaxWrites :
         LET r == IF managerSource = "part_006"
                  THEN updateMatch(store, matchId, opponent1Score, opponent2Score,
                                   libraryThrows)
                  ELSE updateMatchForcingReady(store, matchId, opponent1Score,
                                               opponent2Score, libraryThrows)
             currentMatch == select(store.match, matchId)
             writes == IF r.outcome = "ok"
                       THEN updateMatchWrites(managerSource, store.match, currentMatch[1],
                                matchId, opponent1Score, opponent2Score, libraryThrows)
                       ELSE <<>>
             stored == IF failAt = 1 THEN store.match ELSE writes[failAt - 1].rows
         IN  /\ store' = IF failAt <= Len(writes)
                         THEN [store EXCEPT !.match = stored] ELSE r.store
             /\ lastCall' = [outcome |-> IF failAt <= Len(writes) /\ ~writes[failAt].caught
                                         THEN "storage error" ELSE r.outcome,
                             matchId |-> matchId,
                             opponent1Score |-> opponent1Score,
                             opponent2Score |-> opponent2Score,
                             collision |-> FALSE,
                             before |-> store]
    /\ UNCHANGED managerSource
    /\ UNCHANGED <<teamCount, tournamentType, matches, currentRound, driver>>
    /\ UNCHANGED setupVars
    /\ UNCHANGED inFlight

NextFaults == UpdateMatchWriteFails

SpecFaults == InitManager /\ [][NextFaults]_vars

----------------------------------------------------------------------------
(* updateMatch invocations that overlap (part_006).  An invocation runs from *)
(* one await to the next without interruption; between two awaits of one    *)
(* invocation the other may run.  A storage call reads or writes at the     *)
(* moment it is made; manager.update.match is taken as one step.            *)

Invocations == {1, 2}

NotStarted ==
    [pc |-> "idle", matchId |-> NoId, opponent1Score |-> LoseScore,
     opponent2Score |-> LoseScore, currentMatch |-> <<>>, allMatches |-> <<>>,
     targetId |-> NoId, position |-> "none", updatedMatch |-> <<>>, outcome |-> "none"]

InvocationWinnerId(call) ==
    IF call.opponent1Score > call.opponent2Score
    THEN call.currentMatch[1].opponent1.id ELSE call.currentMatch[1].opponent2.id

Return(c, outcome) ==
    inFlight' = [inFlight EXCEPT ![c].pc = "returned", ![c].outcome = outcome]

\* handleSelectWinner -> updateMatchAtom -> updateMatch up to its first await:
\* storage.select('match', matchId) has read the match
BeginUpdateMatch ==
    /\ driver = "overlap"
    /\ \E c \in Invocations, matchId \in 1..Len(store.match),
          opponent1Score \in Scores, opponent2Score \in Scores :
         /\ inFlight[c].pc = "idle"
         /\ inFlight' = [inFlight EXCEPT ![c] =
                [NotStarted EXCEPT !.pc = "check", !.matchId = matchId,
                                   !.opponent1Score = opponent1Score,
                                   !.opponent2Score = opponent2Score,
                                   !.currentMatch = select(store.match, matchId)]]
    /\ UNCHANGED <<store, managerSource, lastCall, callCount, driver>>
    /\ UNCHANGED logicVars
    /\ UNCHANGED setupVars

\* the not-found and completed checks on the match read, then manager.update.match
CheckAndCallLibrary ==
    /\ driver = "overlap"
    /\ \E c \in Invocations :
         LET call == inFlight[c]
         IN  /\ call.pc = "check"
             /\ IF Len(call.currentMatch) = 0
                THEN Return(c, "not found") /\ UNCHANGED store
                ELSE IF IsCompleted(call.currentMatch[1])
                THEN Return(c, "completed") /\ UNCHANGED store
                ELSE \/ /\ store' = [store EXCEPT !.match =
                                        LibraryUpdateMatch(store.match, call.matchId,
                                            call.opponent1Score, call.opponent2Score)]
                        /\ Return(c, "ok")
                     \/ /\ inFlight' = [inFlight EXCEPT ![c].pc = "record"]
                        /\ UNCHANGED store
    /\ UNCHANGED <<managerSource, lastCall, callCount, driver>>
    /\ UNCHANGED logicVars
    /\ UNCHANGED setupVars

\* the fallback's storage.update of the match, built from the match read at the start
RecordResult ==
    /\ driver = "overlap"
    /\ \E c \in Invocations :
         LET call == inFlight[c]
         IN  /\ call.pc = "record"
             /\ store' = [store EXCEPT !.match =
                             update(store.match, call.matchId,
                                    ResultPatch(call.currentMatch[1],
                                                call.opponent1Score, call.opponent2Score))]
             /\ inFlight' = [inFlight EXCEPT ![c].pc = "read"]
    /\ UNCHANGED <<managerSource, lastCall, callCount, driver>>
    /\ UNCHANGED logicVars
    /\ UNCHANGED setupVars

\* advancePlayersSingleElimination up to its await: storage.select('match')
ReadAllMatches ==
    /\ driver = "overlap"
    /\ \E c \in Invocations :
         LET call == inFlight[c]
         IN  /\ call.pc = "read"
             /\ IF InvocationWinnerId(call) = NoId
                THEN Return(c, "ok")
                ELSE inFlight' = [inFlight EXCEPT ![c].pc = "place",
                                                  ![c].allMatches = store.match]
    /\ UNCHANGED <<store, managerSource, lastCall, callCount, driver>>
    /\ UNCHANGED logicVars
    /\ UNCHANGED setupVars

\* the target match is taken from the matches read; placePlayerInMatch checks
\* that copy and writes the slot
PlaceWinner ==
    /\ driver = "overlap"
    /\ \E c \in Invocations :
         LET call == inFlight[c]
             completedMatch == call.currentMatch[1]
             winnerId == InvocationWinnerId(call)
             nextRoundMatches ==
                 SortByNumber(SelectSeq(call.allMatches,
                     LAMBDA m : m.round_id = completedMatch.round_id + 1))
             targetMatchIndex == (completedMatch.number - 1) \div 2
             targetMatch == nextRoundMatches[targetMatchIndex + 1]
             position == PositionFor(completedMatch)
         IN  /\ call.pc = "place"
             /\ IF \/ Len(nextRoundMatches) = 0
                   \/ targetMatchIndex + 1 > Len(nextRoundMatches)
                THEN Return(c, "ok") /\ UNCHANGED store
                ELSE IF Len(placePlayerInMatchWrites(call.allMatches, targetMatch,
                                                     winnerId, position)) = 0
                THEN Return(c, "ok") /\ UNCHANGED store
                ELSE /\ store' = [store EXCEPT !.match =
                                     update(store.match, targetMatch.id,
                                            SlotPatch(position, winnerId))]
                     /\ inFlight' = [inFlight EXCEPT ![c].pc = "reread",
                                                     ![c].targetId = targetMatch.id,
                                                     ![c].position = position]
    /\ UNCHANGED <<managerSource, lastCall, callCount, driver>>
    /\ UNCHANGED logicVars
    /\ UNCHANGED setupVars

\* placePlayerInMatch after the slot write: storage.select('match', match.id)
RereadTarget ==
    /\ driver = "overlap"
    /\ \E c \in Invocations :
         /\ inFlight[c].pc = "reread"
         /\ inFlight' = [inFlight EXCEPT
                            ![c].pc = "ready",
                            ![c].updatedMatch = select(store.match, inFlight[c].targetId)]
    /\ UNCHANGED <<store, managerSource, lastCall, callCount, driver>>
    /\ UNCHANGED logicVars
    /\ UNCHANGED setupVars

\* the target is set ready when the copy read has both opponents and status 0;
\* updateMatch returns true
MarkTargetReady ==
    /\ driver = "overlap"
    /\ \E c \in Invocations :
         LET call == inFlight[c]
             matchData == call.updatedMatch[1]
         IN  /\ call.pc = "ready"
             /\ store' = IF /\ matchData.opponent1.id # NoId
                            /\ matchData.opponent2.id # NoId
                            /\ matchData.status = StatusWaiting
                         THEN [store EXCEPT !.match =
                                  update(store.match, call.targetId, [status |-> StatusReady])]
                         ELSE store
             /\ Return(c, "ok")
    /\ UNCHANGED <<managerSource, lastCall, callCount, driver>>
    /\ UNCHANGED logicVars
    /\ UNCHANGED setupVars

\* a created single-elimination tournament and two invocations not yet started
InitOverlap ==
    /\ driver = "overlap"
    /\ managerSource = "part_006"
    /\ \E rounds \in 1..MaxBracketRounds :
         /\ store = CreatedStore(rounds, "single_elimination")
         /\ playersAtom = [i \in 1..PowerOfTwo(rounds) |-> i]
    /\ tournamentSettingsAtom = [type |-> "single_elimination", gameType |-> "singles"]
    /\ teamsAtom = <<>>
    /\ tournamentCreatedAtom = TRUE
    /\ setupCall = NoSetupCall
    /\ inFlight = [c \in Invocations |-> NotStarted]
    /\ lastCall = NoCall
    /\ callCount = 0
    /\ teamCount = 0
    /\ tournamentType = "none"
    /\ matches = <<>>
    /\ currentRound = 0

NextOverlap ==
    \/ BeginUpdateMatch
    \/ CheckAndCallLibrary
    \/ RecordResult
    \/ ReadAllMatches
    \/ PlaceWinner
    \/ RereadTarget
    \/ MarkTargetReady

SpecOverlap == InitOverlap /\ [][NextOverlap]_vars

----------------------------------------------------------------------------
(* A double-elimination tournament played through the view (part_006): the   *)
(* view offers the winner buttons of a match only while its status is ready  *)

\* the scores handleSelectWinner sends for the chosen winner
ScoreFor(winner, side) == IF winner = side THEN WinScore ELSE LoseScore

\* handleSelectWinner(winner, match) -> updateMatchAtom -> updateMatch
HandleSelectWinner ==
    /\ driver = "double"
    /\ \E i \in 1..Len(store.match), winner \in {1, 2}, libraryThrows \in BOOLEAN :
         /\ store.match[i].status = StatusReady
         /\ store' = updateMatch(store, store.match[i].id, ScoreFor(winner, 1),
                                 ScoreFor(winner, 2), libraryThrows).store
    /\ UNCHANGED <<managerSource, lastCall, callCount, driver>>
    /\ UNCHANGED logicVars
    /\ UNCHANGED setupVars
    /\ UNCHANGED inFlight

\* the state createTournament leaves for a double-elimination stage of up to
\* MaxPlayers participants
InitDouble ==
    /\ driver = "double"
    /\ managerSource = "part_006"
    /\ \E rounds \in 2..MaxBracketRounds :
         /\ PowerOfTwo(rounds) <= MaxPlayers
         /\ store = CreatedStore(rounds, "double_elimination")
         /\ playersAtom = [i \in 1..PowerOfTwo(rounds) |-> i]
    /\ tournamentSettingsAtom = [type |-> "double_elimination", gameType |-> "singles"]
    /\ teamsAtom = <<>>
    /\ tournamentCreatedAtom = TRUE
    /\ setupCall = NoSetupCall
    /\ inFlight = <<>>
    /\ lastCall = NoCall
    /\ callCount = 0
    /\ teamCount = 0
    /\ tournamentType = "none"
    /\ matches = <<>>
    /\ currentRound = 0

NextDouble == HandleSelectWinner

SpecDouble == InitDouble /\ [][NextDouble]_vars

----------------------------------------------------------------------------
(* Double elimination of 4 and 8 participants over a manager.update.match   *)
(* that throws: every advancement is then made by part_006 itself           *)

MaxDoubleRounds == 3
MaxDoubleCalls == 7

\* handleSelectWinner(winner, match) -> updateMatch, which falls back to its
\* own update and advancement
HandleSelectWinnerFallback ==
    /\ driver = "fallback"
    /\ callCount < MaxDoubleCalls
    /\ callCount' = callCount + 1
    /\ \E i \in 1..Len(store.match), winner \in {1, 2} :
         /\ store.match[i].status = StatusReady
         /\ store' = updateMatch(store, store.match[i].id, ScoreFor(winner, 1),
                                 ScoreFor(winner, 2), TRUE).store
    /\ UNCHANGED <<managerSource, lastCall, driver>>
    /\ UNCHANGED logicVars
    /\ UNCHANGED setupVars
    /\ UNCHANGED inFlight

InitDoubleFallback ==
    /\ driver = "fallback"
    /\ managerSource = "part_006"
    /\ \E rounds \in 2..MaxDoubleRounds :
         /\ store = CreatedStore(rounds, "double_elimination")
         /\ playersAtom = [i \in 1..PowerOfTwo(rounds) |-> i]
    /\ tournamentSettingsAtom = [type |-> "double_elimination", gameType |-> "singles"]
    /\ teamsAtom = <<>>
    /\ tournamentCreatedAtom = TRUE
    /\ setupCall = NoSetupCall
    /\ inFlight = <<>>
    /\ lastCall = NoCall
    /\ callCount = 0
    /\ teamCount = 0
    /\ tournamentType = "none"
    /\ matches = <<>>
    /\ currentRound = 0

NextDoubleFallback == HandleSelectWinnerFallback

SpecDoubleFallback == InitDoubleFallback /\ [][NextDoubleFallback]_vars

----------------------------------------------------------------------------
(* store.ts: createTournamentAtom over TournamentManager.createTournament,  *)
(* and generateTeams called directly, as its tests do                      *)

GameTypes == {"singles", "doubles"}

\* insert(table, value): the new id is 1 in an empty table, else the largest id + 1
insert(rows, value) ==
    LET id == IF Len(rows) > 0 THEN SeqMax([i \in 1..Len(rows) |-> rows[i].id]) + 1 ELSE 1
    IN  Append(rows, [f \in DOMAIN value \cup {"id"} |->
                        IF f = "id" THEN id ELSE value[f]])

\* the doubles loop of prepareParticipants; a name is given by the players in it
RECURSIVE PairParticipants(_, _, _)
PairParticipants(ps, i, acc) ==
    IF i >= Len(ps) THEN acc
    ELSE IF i + 1 < Len(ps)
        THEN PairParticipants(ps, i + 2,
                 Append(acc, [id |-> Len(acc) + 1, name |-> <<ps[i + 1], ps[i + 2]>>]))
    ELSE PairParticipants(ps, i + 2,
             Append(acc, [id |-> Len(acc) + 1, name |-> <<ps[i + 1]>>]))

\* prepareParticipants(players, gameType)
prepareParticipants(ps, gameType) ==
    IF gameType = "singles"
    THEN [index \in 1..Len(ps) |-> [id |-> index, name |-> <<ps[index]>>]]
    ELSE PairParticipants(ps, 0, <<>>)

\* for (const participant of participantData) storage.insert('participant', ...)
RECURSIVE InsertParticipants(_, _, _)
InsertParticipants(rows, participantData, i) ==
    IF i > Len(participantData) THEN rows
    ELSE InsertParticipants(insert(rows, [name |-> participantData[i].name]),
                            participantData, i + 1)

\* manager.create.stage of brackets-manager is modelled for 2^k participants,
\* k >= 1, the stages of SingleEliminationStage; for any other number of
\* participants the call is taken to throw
CanCreateStage(n) == \E k \in 1..n : PowerOfTwo(k) = n

StageRoundsFor(n) == CHOOSE k \in 1..n : PowerOfTwo(k) = n

\* a createTournament whose stage creation accepts any number of participants
createTournament_AnyCount(st, ps, s, libraryThrows) ==
    LET participantData == prepareParticipants(ps, s.gameType)
        inserted == InsertParticipants(<<>>, participantData, 1)
        cleared == [EmptyStore EXCEPT !.participant = inserted]
    IN  IF libraryThrows
        THEN Thrown(cleared, "library")
        ELSE [store |-> [cleared EXCEPT
                            !.stage = <<[id |-> 1, type |-> s.type]>>,
                            !.match = IF CanCreateStage(Len(inserted))
                                      THEN SingleEliminationStage(StageRoundsFor(Len(inserted)))
                                      ELSE <<>>],
              outcome |-> "ok"]

\* createTournament(players, settings): the store is cleared and the
\* participants are inserted before the stage is created; an error of the
\* library is rethrown
createTournament(st, ps, s, libraryThrows) ==
    LET participantData == prepareParticipants(ps, s.gameType)
        inserted == InsertParticipants(<<>>, participantData, 1)
        cleared == [EmptyStore EXCEPT !.participant = inserted]
    IN  IF libraryThrows \/ ~CanCreateStage(Len(inserted))
        THEN Thrown(cleared, "library")
        ELSE [store |-> [cleared EXCEPT
                            !.stage = <<[id |-> 1, type |-> s.type]>>,
                            !.match = SingleEliminationStage(StageRoundsFor(Len(inserted)))],
              outcome |-> "ok"]

\* a shuffle that draws j from the whole list at every step
DrawRange_Whole(i, n) == 0..(n - 1)

\* Math.floor(Math.random() * (i + 1)), Math.random an ideal uniform draw
DrawRange(i, n) == 0..i

\* the draws of one shuffle of n players: draws[i] is the j of loop index i
ShuffleDraws(n) ==
    {draws \in [1..(n - 1) -> 0..(n - 1)] : \A i \in 1..(n - 1) : draws[i] \in DrawRange(i, n)}

\* [a[i], a[j]] = [a[j], a[i]], i and j the source's 0-based indices
Swap(a, i, j) ==
    [k \in 1..Len(a) |-> IF k = i + 1 THEN a[j + 1] ELSE IF k = j + 1 THEN a[i + 1] ELSE a[k]]

\* for (let i = playersToUse.length - 1; i > 0; i--)
RECURSIVE FisherYates(_, _, _)
FisherYates(playersToUse, i, draws) ==
    IF i <= 0 THEN playersToUse
    ELSE FisherYates(Swap(playersToUse, i, draws[i]), i - 1, draws)

\* createTournamentAtom(randomizePlayers): the whole write function
CreateTournament ==
    /\ driver = "createTournament"
    /\ \E randomizePlayers \in BOOLEAN, libraryThrows \in BOOLEAN,
          draws \in ShuffleDraws(Len(playersAtom)) :
         LET originalPlayers == playersAtom
             playersToUse == IF randomizePlayers
                             THEN FisherYates(originalPlayers, Len(originalPlayers) - 1, draws)
                             ELSE originalPlayers
             r == createTournament(store, playersToUse, tournamentSettingsAtom, libraryThrows)
         IN  IF Len(originalPlayers) < 2
             THEN /\ setupCall' = [op |-> "createTournament", outcome |-> "error",
                                   randomizePlayers |-> randomizePlayers,
                                   order |-> <<>>]
                  /\ UNCHANGED <<store, tournamentCreatedAtom>>
             ELSE /\ store' = r.store
                  /\ tournamentCreatedAtom' = (tournamentCreatedAtom \/ r.outcome = "ok")
                  /\ setupCall' = [op |-> "createTournament", outcome |-> r.outcome,
                                   randomizePlayers |-> randomizePlayers,
                                   order |-> playersToUse]
    /\ UNCHANGED <<playersAtom, tournamentSettingsAtom, teamsAtom>>
    /\ UNCHANGED <<managerSource, lastCall, callCount, driver>>
    /\ UNCHANGED logicVars
    /\ UNCHANGED inFlight

\* canGenerateTeams of the setup view: its buttons are disabled without it
canGenerateTeams(ps, gameType) ==
    Len(ps) >= (IF gameType = "singles" THEN 2 ELSE 4)

\* generateTeams(players, gameType, randomizePlayers), the caller keeping the result
GenerateTeamsCall ==
    /\ driver = "generateTeams"
    /\ \E randomizePlayers \in BOOLEAN, sort \in SortKeys(Len(playersAtom)) :
         /\ teamsAtom' = generateTeams(playersAtom, tournamentSettingsAtom.gameType,
                                       randomizePlayers, sort)
         /\ setupCall' = [op |-> "generateTeams", outcome |-> "ok",
                          randomizePlayers |-> randomizePlayers,
                          order |-> IF randomizePlayers
                                    THEN RandomizedCopy(playersAtom, sort)
                                    ELSE playersAtom]
    /\ UNCHANGED <<playersAtom, tournamentSettingsAtom, tournamentCreatedAtom>>
    /\ UNCHANGED <<mgrVars, driver>>
    /\ UNCHANGED logicVars
    /\ UNCHANGED inFlight

\* any number of players entered, either game type; the storage is empty or
\* holds an earlier tournament
InitSetup ==
    /\ driver \in {"generateTeams", "createTournament"}
    /\ \E n \in 0..MaxPlayers : playersAtom = [i \in 1..n |-> i]
    /\ tournamentSettingsAtom \in [type : {"single_elimination"}, gameType : GameTypes]
    /\ teamsAtom = <<>>
    /\ \/ store = EmptyStore /\ tournamentCreatedAtom = FALSE
       \/ store = CreatedStore(1, "single_elimination") /\ tournamentCreatedAtom = TRUE
    /\ managerSource = "part_006"
    /\ lastCall = NoCall
    /\ callCount = 0
    /\ setupCall = NoSetupCall
    /\ inFlight = <<>>
    /\ teamCount = 0
    /\ tournamentType = "none"
    /\ matches = <<>>
    /\ currentRound = 0

NextSetup == CreateTournament \/ GenerateTeamsCall

SpecSetup == InitSetup /\ [][NextSetup]_vars

----------------------------------------------------------------------------
(* LocalStorage called directly on one table, here 'match' with rows of the *)
(* fields id and stage_id                                                   *)

MaxRows == 2

StageIds == {1, 2}

\* a row as insert leaves it: its id, and stage_id a number, null or absent
RowsWithId(id) ==
    {[f \in {"id"} |-> id]} \cup {[id |-> id, stage_id |-> v] : v \in StageIds \cup {Null}}

\* the non-object filters: 0, the ids in use and one more
IdFilters == 0..(MaxRows + 1)

\* the object filters: {}, { stage_id }, { id, stage_id }
ObjectFilters ==
    {<<>>} \cup {[stage_id |-> v] : v \in StageIds \cup {Null}}
           \cup {[id |-> k, stage_id |-> v] : k \in 1..MaxRows, v \in {1, Null}}

UpdateValues == {[stage_id |-> v] : v \in StageIds \cup {Null}}

StorageCall(op, object, idFilter, objectFilter, value, result) ==
    [outcome |-> op, object |-> object, idFilter |-> idFilter,
     objectFilter |-> objectFilter, value |-> value, result |-> result]

StorageSelect ==
    /\ driver = "storage"
    /\ callCount < MaxCalls
    /\ callCount' = callCount + 1
    /\ \/ \E filter \in IdFilters :
            lastCall' = StorageCall("select", FALSE, filter, <<>>, <<>>,
                                    select(store.match, filter))
       \/ \E filter \in ObjectFilters :
            lastCall' = StorageCall("select", TRUE, NoId, filter, <<>>,
                                    selectByObject(store.match, filter))
    /\ UNCHANGED <<store, managerSource, driver>>
    /\ UNCHANGED logicVars
    /\ UNCHANGED setupVars
    /\ UNCHANGED inFlight

StorageUpdate ==
    /\ driver = "storage"
    /\ callCount < MaxCalls
    /\ callCount' = callCount + 1
    /\ \E value \in UpdateValues :
         \/ \E filter \in IdFilters :
              /\ store' = [store EXCEPT !.match = update(store.match, filter, value)]
              /\ lastCall' = StorageCall("update", FALSE, filter, <<>>, value, <<>>)
         \/ \E filter \in ObjectFilters :
              /\ store' = [store EXCEPT !.match = updateByObject(store.match, filter, value)]
              /\ lastCall' = StorageCall("update", TRUE, NoId, filter, value, <<>>)
    /\ UNCHANGED <<managerSource, driver>>
    /\ UNCHANGED logicVars
    /\ UNCHANGED setupVars
    /\ UNCHANGED inFlight

StorageDelete ==
    /\ driver = "storage"
    /\ callCount < MaxCalls
    /\ callCount' = callCount + 1
    /\ \/ \E filter \in IdFilters :
            /\ store' = [store EXCEPT !.match = delete(store.match, filter)]
            /\ lastCall' = StorageCall("delete", FALSE, filter, <<>>, <<>>, <<>>)
       \/ \E filter \in ObjectFilters :
            /\ store' = [store EXCEPT !.match = deleteByObject(store.match, filter)]
            /\ lastCall' = StorageCall("delete", TRUE, NoId, filter, <<>>, <<>>)
    /\ UNCHANGED <<managerSource, driver>>
    /\ UNCHANGED logicVars
    /\ UNCHANGED setupVars
    /\ UNCHANGED inFlight

\* a table of up to MaxRows rows with the ids insert gives: 1, 2, ...
InitStorage ==
    /\ driver = "storage"
    /\ \E n \in 0..MaxRows :
         \E rows \in [1..n -> UNION {RowsWithId(id) : id \in 1..n}] :
            /\ \A i \in 1..n : rows[i].id = i
            /\ store = [EmptyStore EXCEPT !.match = rows]
    /\ managerSource = "none"
    /\ lastCall = NoCall
    /\ callCount = 0
    /\ teamCount = 0
    /\ tournamentType = "none"
    /\ matches = <<>>
    /\ currentRound = 0
    /\ playersAtom = <<>>
    /\ tournamentSettingsAtom = [type |-> "single_elimination", gameType |-> "singles"]
    /\ teamsAtom = <<>>
    /\ tournamentCreatedAtom = FALSE
    /\ setupCall = NoSetupCall
    /\ inFlight = <<>>

NextStorage == StorageSelect \/ StorageUpdate \/ StorageDelete

SpecStorage == InitStorage /\ [][NextStorage]_vars

----------------------------------------------------------------------------
(* Claims about the logic engine *)

RECURSIVE CeilLog2From(_, _, _)
CeilLog2From(p, k, n) == IF p >= n THEN k ELSE CeilLog2From(2 * p, k + 1, n)

CeilLog2(n) == CeilLog2From(1, 0, n)

AllResolved == \A i \in 1..Len(matches) : HasWinner(matches[i])

SomeButtonEnabled == \E i \in 1..Len(matches) : WinnerButtonEnabled(matches[i])

DE == tournamentType = "double-elimination"

KO == tournamentType = "knockout"

Finals == FinalMatches(matches)

FirstFinalWonBy(slot) ==
    /\ DE
    /\ Len(Finals) >= 1
    /\ HasWinner(Finals[1])
    /\ Finals[1].winner = (IF slot = 1 THEN Finals[1].team1 ELSE Finals[1].team2)

\* C1: knockout through handleWinner: while the tournament is not complete a
\* non-bye match of the current round can still be decided; never more than
\* ceil(log2(n)) rounds exist; and once every match has a winner the matches
\* span exactly ceil(log2(n)) rounds, isTournamentComplete is true and the
\* champion is one team of the field.
C1_KnockoutRoundsAndChampion ==
    KO =>
        /\ Cardinality(getAllRounds(matches)) <= CeilLog2(teamCount)
        /\ ~isComplete => SomeButtonEnabled
        /\ isComplete <=> AllResolved
        /\ AllResolved =>
             /\ getAllRounds(matches) = 1..CeilLog2(teamCount)
             /\ isComplete
             /\ getChampion \in 1..teamCount

C1_Witness ==
    /\ KO
    /\ teamCount = 5
    /\ AllResolved
    /\ isComplete
    /\ Cardinality(getAllRounds(matches)) = 3

\* C2 (as claimed): double elimination: when the first final was won by its
\* team2, a second final with the same two finalists exists after the
\* advancement, and the tournament is not complete before that second final
\* has a winner.
C2_SecondFinalAfterLosersChampionWins ==
    FirstFinalWonBy(2) =>
        /\ Len(Finals) >= 2
        /\ Finals[2].team1 = Finals[1].team1
        /\ Finals[2].team2 = Finals[1].team2
        /\ isComplete => HasWinner(Finals[2])

\* C3: double elimination: when the first final was won by its team1 the
\* tournament is complete and there is never a second final.
C3_NoSecondFinalAfterWinnersChampionWins ==
    FirstFinalWonBy(1) => isComplete /\ Len(Finals) = 1

C3_Witness == FirstFinalWonBy(1) /\ teamCount = 4

\* C4 (as claimed): in double elimination isTournamentComplete is true exactly
\* when the last final has a winner and no further final is owed: the first
\* final was won by team1, or the reset final has a winner.
C4_CompleteIffNoFinalOwed ==
    DE =>
        (isComplete <=>
            /\ Len(Finals) >= 1
            /\ HasWinner(Finals[Len(Finals)])
            /\ \/ Finals[1].winner = Finals[1].team1
               \/ Len(Finals) = 2 /\ HasWinner(Finals[2]))

\* the match that decides the tournament, found by position: the last match
\* of the list in knockout, the last 'final' match in double elimination
DeterminingMatches ==
    IF KO THEN {matches[Len(matches)]}
    ELSE {matches[i] : i \in {j \in 1..Len(matches) :
                                /\ matches[j].bracket = "final"
                                /\ \A k \in (j + 1)..Len(matches) :
                                     matches[k].bracket # "final"}}

\* C5: getTournamentChampion is null whenever isTournamentComplete is false,
\* and otherwise is the winner of the determining final match, which is the
\* only match of the highest round (knockout) or the last 'final' match.
C5_ChampionIsWinnerOfDeterminingFinal ==
    /\ ~isComplete => getChampion = NoTeam
    /\ isComplete =>
         /\ getChampion # NoTeam
         /\ \E m \in DeterminingMatches : getChampion = m.winner
         /\ KO => \A i \in 1..(Len(matches) - 1) :
                     matches[i].round < matches[Len(matches)].round

C5_Witness == isComplete /\ getChampion # NoTeam /\ DE /\ teamCount = 4

\* C7 (as claimed): once a match has a winner, no later operation changes or
\* clears it.
C7_WinnerWrittenOnce ==
    [][\A i \in 1..Len(matches) :
          HasWinner(matches[i]) =>
              /\ i <= Len(matches')
              /\ matches'[i].winner = matches[i].winner]_vars

SameTeams(m) == m.team1 = m.team2

\* C13: a match whose two slots hold the same team has that team as winner
\* in every state, starting with the one that creates it; no winner button is
\* enabled for it and no handleWinner step changes it.
C13_ByesPreResolved ==
    /\ [](\A i \in 1..Len(matches) :
            SameTeams(matches[i]) =>
                /\ matches[i].winner = matches[i].team1
                /\ ~WinnerButtonEnabled(matches[i]))
    /\ [][\A i \in 1..Len(matches) :
            SameTeams(matches[i]) => matches'[i] = matches[i]]_vars

\* a bye created by an advancement, with a later round already being played
C13_Witness ==
    \E i \in 1..Len(matches) :
        /\ SameTeams(matches[i])
        /\ matches[i].round > 1
        /\ matches[i].round < currentRound

IsPowerOfTwo(n) == NextPowerOfTwo(n) = n

Meet(m, a, b) == {m.team1, m.team2} = {a, b}

\* fields of 4, 8, ..., 2^MaxSeedingExponent teams
MaxSeedingExponent == 5

\* seed 1 is placed in the first half of the bracket and seed 2 in the second
SeedsInOppositeHalves(n) ==
    LET positions == createSeededPositions(n)
    IN  positions[1] < n \div 2 /\ positions[2] >= n \div 2

\* C14: in a knockout with a power-of-two field of at least 4 teams, a match
\* between seed 1 and seed 2 exists only in the final round; and for every
\* such field up to 2^MaxSeedingExponent the two seeds start in opposite
\* halves of the bracket.
C14_TopSeedsMeetOnlyInFinal ==
    /\ (KO /\ IsPowerOfTwo(teamCount) /\ teamCount >= 4) =>
            \A i \in 1..Len(matches) :
                Meet(matches[i], 1, 2) => matches[i].round = CeilLog2(teamCount)
    /\ \A k \in 2..MaxSeedingExponent : SeedsInOppositeHalves(PowerOfTwo(k))

\* eight teams, both top seeds won every match and meet in round 3
C14_Witness ==
    /\ KO
    /\ teamCount = 8
    /\ \E i \in 1..Len(matches) : Meet(matches[i], 1, 2) /\ matches[i].round = 3

\* C15 (as claimed): with a power-of-two field, every round-1 knockout match
\* pairs seed i with seed n + 1 - i.
C15_StandardSeedingPairs ==
    (KO /\ IsPowerOfTwo(teamCount)) =>
        \A i \in 1..Len(matches) :
            matches[i].round = 1 =>
                matches[i].team1 + matches[i].team2 = teamCount + 1

\* C16 (as claimed): round 1 of a knockout has size / 2 matches, size being
\* the smallest power of two >= the number of teams.
C16_RoundOneMatchCount ==
    KO => Len(getMatchesForRound(matches, 1)) = NextPowerOfTwo(teamCount) \div 2

\* C18: in a knockout, a fully resolved round r of more than one match is
\* followed by a round of ceil(matchesInRound(r) / 2) matches, and when the
\* number of winners is odd the last match of that round is a resolved bye
\* for the last winner.
C18_OddWinnerGetsBye ==
    KO => \A r \in getAllRounds(matches) :
            LET cur == getMatchesForRound(matches, r)
                next == getMatchesForRound(matches, r + 1)
                last == cur[Len(cur)].winner
            IN  (AllHaveWinners(cur) /\ Len(cur) > 1) =>
                    /\ Len(next) = (Len(cur) + 1) \div 2
                    /\ Len(cur) % 2 = 1 =>
                          /\ next[Len(next)].team1 = last
                          /\ next[Len(next)].team2 = last
                          /\ next[Len(next)].winner = last

\* five teams: three round-1 winners, round 2 is one match and one bye
C18_Witness ==
    /\ KO
    /\ Len(getMatchesForRound(matches, 1)) = 3
    /\ Len(getMatchesForRound(matches, 2)) = 2
    /\ SameTeams(getMatchesForRound(matches, 2)[2])

InBracket(ms, bracket) == SelectSeq(ms, LAMBDA m : m.bracket = bracket)

\* round and teams of each match, in order
Pairings(ms) == [i \in 1..Len(ms) |-> <<ms[i].round, ms[i].team1, ms[i].team2>>]

\* the winners-bracket matches read as the matches of a knockout
WinnersAsKnockout == [i \in 1..Len(InBracket(matches, "winners")) |->
                        [InBracket(matches, "winners")[i] EXCEPT !.bracket = "none"]]

\* C19 (as claimed): round 1 of the winners bracket is the knockout's round 1,
\* and once the tournament has moved past a winners-bracket round of more
\* than one match, the winners-bracket matches of the next round are the
\* ones the knockout engine generates from the same winners, byes included.
C19_WinnersBracketIsKnockout ==
    DE =>
        /\ Pairings(getMatchesForRound(WinnersAsKnockout, 1))
               = Pairings(generateKnockoutMatches(teamCount))
        /\ \A r \in 1..(currentRound - 1) :
              Len(getMatchesForRound(WinnersAsKnockout, r)) > 1 =>
                  Pairings(getMatchesForRound(WinnersAsKnockout, r + 1))
                      = Pairings(generateNextRoundMatches(WinnersAsKnockout, r))

\* C20 (as claimed): in double elimination, once the tournament has moved
\* past the round of a resolved non-bye winners-bracket match, the loser of
\* that match is team1 or team2 of some losers-bracket match.
C20_EveryLoserDropsToLosersBracket ==
    DE => \A i \in 1..Len(matches) :
            LET m == matches[i]
                loser == IF m.winner = m.team1 THEN m.team2 ELSE m.team1
            IN  (/\ m.bracket = "winners"
                 /\ ~SameTeams(m)
                 /\ HasWinner(m)
                 /\ m.round < currentRound) =>
                    \E j \in 1..Len(matches) :
                        /\ matches[j].bracket = "losers"
                        /\ loser \in {matches[j].team1, matches[j].team2}

\* number of resolved non-bye, non-final matches of ms that team t lost
Losses(t, ms) ==
    Cardinality({i \in 1..Len(ms) :
        /\ ms[i].bracket # "final"
        /\ ms[i].team1 # ms[i].team2
        /\ HasWinner(ms[i])
        /\ t \in {ms[i].team1, ms[i].team2}
        /\ ms[i].winner # t})

TeamsWithLosses(k, ms) == {t \in 1..teamCount : Losses(t, ms) = k}

\* C21 (as claimed): the step that creates the first final leaves every
\* winners- and losers-bracket match resolved, exactly one team without a
\* loss and exactly one team with a single loss, and the final has the former
\* as team1 and the latter as team2.
C21_FinalOnlyBetweenBracketChampions ==
    [][(DE /\ Len(FinalMatches(matches)) = 0 /\ Len(FinalMatches(matches')) > 0) =>
          LET final == FinalMatches(matches')[1]
          IN  /\ \A i \in 1..Len(matches') :
                   matches'[i].bracket # "final" => HasWinner(matches'[i])
              /\ TeamsWithLosses(0, matches') = {final.team1}
              /\ TeamsWithLosses(1, matches') = {final.team2}]_vars

\* number of resolved non-bye matches of rounds below round that team t lost
LossesBefore(t, round) ==
    Cardinality({i \in 1..Len(matches) :
        /\ matches[i].round < round
        /\ matches[i].team1 # matches[i].team2
        /\ HasWinner(matches[i])
        /\ t \in {matches[i].team1, matches[i].team2}
        /\ matches[i].winner # t})

\* C22 (as claimed): while a double elimination is incomplete, every team
\* with fewer than two losses is in a match of the round being played, and no
\* match holds a team that had lost twice before the round of that match.
C22_OutOnlyAfterTwoLosses ==
    DE =>
        /\ ~isComplete =>
              \A t \in 1..teamCount :
                  LossesBefore(t, currentRound) < 2 =>
                      \E i \in 1..Len(matches) :
                          /\ matches[i].round = currentRound
                          /\ t \in {matches[i].team1, matches[i].team2}
        /\ \A i \in 1..Len(matches) :
              \A t \in {matches[i].team1, matches[i].team2} :
                  LossesBefore(t, matches[i].round) < 2

----------------------------------------------------------------------------
(* Claims about TournamentManager.updateMatch *)

Called == lastCall.outcome # "none"

\* the rows with the called id in the store before the call (none or one)
TargetBefore == SelectSeq(lastCall.before.match, LAMBDA m : m.id = lastCall.matchId)

TargetNow == SelectSeq(store.match, LAMBDA m : m.id = lastCall.matchId)

ResultRecorded(m) == m.opponent1.result # "none" \/ m.opponent2.result # "none"

\* C6: a call for a stored match that already has a recorded result throws
\* "Cannot update a completed match" and leaves every table exactly as the
\* first call left it.
C6_SecondCallRejected ==
    (/\ Called
     /\ Len(TargetBefore) = 1
     /\ ResultRecorded(TargetBefore[1])) =>
        /\ lastCall.outcome = "completed"
        /\ store = lastCall.before

C6_Witness ==
    /\ Called
    /\ Len(TargetBefore) = 1
    /\ ResultRecorded(TargetBefore[1])
    /\ TargetBefore[1].status = StatusCompleted
    /\ lastCall.outcome = "completed"

\* C8 (as claimed): a call for a stored match with opponent1Score =
\* opponent2Score throws and leaves the store unchanged.
C8_TieRejected ==
    (/\ Called
     /\ Len(TargetBefore) = 1
     /\ lastCall.opponent1Score = lastCall.opponent2Score) =>
        /\ lastCall.outcome # "ok"
        /\ store = lastCall.before

\* C9 (as claimed): a call for an id that no stored match has throws the
\* not-found error and leaves every table unchanged.
C9_UnknownIdRejected ==
    (Called /\ Len(TargetBefore) = 0) =>
        /\ lastCall.outcome = "not found"
        /\ store = lastCall.before

\* C10 (as claimed): a call for a match that is not ready (a slot unbound,
\* status other than ready) throws, records no outcome and changes no status.
C10_NotReadyRejected ==
    (/\ Called
     /\ Len(TargetBefore) = 1
     /\ TargetBefore[1].status # StatusReady
     /\ TargetBefore[1].opponent1.id = NoId \/ TargetBefore[1].opponent2.id = NoId) =>
        /\ lastCall.outcome # "ok"
        /\ \A i \in 1..Len(store.match) :
             /\ store.match[i].status = lastCall.before.match[i].status
             /\ ResultRecorded(store.match[i]) = ResultRecorded(lastCall.before.match[i])

\* C11: no updateMatch call changes the participant of a slot that was bound
\* before the call; an advancement into an occupied slot leaves it as it was.
C11_BoundSlotKept ==
    Called =>
        \A i \in 1..Len(lastCall.before.match) :
            LET old == lastCall.before.match[i]
                new == store.match[i]
            IN  /\ old.opponent1.id # NoId => new.opponent1.id = old.opponent1.id
                /\ old.opponent2.id # NoId => new.opponent2.id = old.opponent2.id

C11_Witness ==
    /\ Called
    /\ lastCall.collision
    /\ \A i \in 1..Len(store.match) :
         /\ store.match[i].opponent1.id = lastCall.before.match[i].opponent1.id
         /\ store.match[i].opponent2.id = lastCall.before.match[i].opponent2.id

\* C12 (as claimed): a call whose advancement finds the destination slot held
\* by a different participant does not return true.
C12_CollisionSurfaced ==
    (Called /\ lastCall.collision) => lastCall.outcome # "ok"

\* the winner the last call named for its match
CalledWinnerId ==
    IF lastCall.opponent1Score > lastCall.opponent2Score
    THEN TargetBefore[1].opponent1.id ELSE TargetBefore[1].opponent2.id

\* C17, logic engine: match k of round r + 1 of a knockout holds the winners
\* of matches 2k - 1 and 2k of round r, in creation order.
KnockoutPairsByPosition ==
    KO => \A r \in getAllRounds(matches) :
            LET cur == getMatchesForRound(matches, r)
                next == getMatchesForRound(matches, r + 1)
            IN  \A k \in 1..Len(next) :
                    /\ 2 * k - 1 <= Len(cur)
                    /\ next[k].team1 = cur[2 * k - 1].winner
                    /\ 2 * k <= Len(cur) => next[k].team2 = cur[2 * k].winner

\* C17, TournamentManager: an accepted call for stored match number m of a
\* round that has a next round changes the participant of no slot other than
\* slot opponent1 (m odd) or opponent2 (m even) of next-round match
\* ceil(m / 2), and that slot, when it was free, now holds the winner.
ManagerAdvancesByPosition ==
    (Called /\ lastCall.outcome = "ok" /\ Len(TargetBefore) = 1) =>
        LET m == TargetBefore[1]
            position == IF m.number % 2 = 1 THEN "opponent1" ELSE "opponent2"
            IsDestination(x) ==
                x.round_id = m.round_id + 1 /\ x.number = (m.number + 1) \div 2
        IN  \A i \in 1..Len(store.match) :
                LET old == lastCall.before.match[i]
                    new == store.match[i]
                IN  /\ \A slot \in {"opponent1", "opponent2"} :
                         SlotOf(new, slot).id # SlotOf(old, slot).id =>
                             IsDestination(old) /\ slot = position
                    /\ (/\ IsDestination(old)
                        /\ CalledWinnerId # NoId
                        /\ SlotOf(old, position).id = NoId) =>
                            SlotOf(new, position).id = CalledWinnerId

----------------------------------------------------------------------------
(* Claims about team formation and tournament creation *)

GeneratedTeams(randomizePlayers) ==
    /\ setupCall.op = "generateTeams"
    /\ setupCall.randomizePlayers = randomizePlayers

\* the places (team, position in the team) at which a player stands
PlacesOf(player, ts) ==
    {<<k, j>> \in (1..Len(ts)) \X (1..2) : j <= Len(ts[k]) /\ ts[k][j] = player}

\* C23: generateTeams without randomization keeps the order of the players:
\* in singles team i is player i alone; in doubles team k holds the players
\* 2k-1 and 2k of the list (2i and 2i+1 counted from 0), a trailing unpaired
\* player being a team of one; every player stands in exactly one team, once
C23_TeamsAreConsecutiveGroups ==
    GeneratedTeams(FALSE) =>
        LET n == Len(playersAtom)
        IN  /\ tournamentSettingsAtom.gameType = "singles" =>
                 /\ Len(teamsAtom) = n
                 /\ \A i \in 1..n : teamsAtom[i] = <<playersAtom[i]>>
            /\ tournamentSettingsAtom.gameType = "doubles" =>
                 /\ Len(teamsAtom) = (n + 1) \div 2
                 /\ \A k \in 1..Len(teamsAtom) :
                      teamsAtom[k] = IF 2 * k <= n
                                     THEN <<playersAtom[2 * k - 1], playersAtom[2 * k]>>
                                     ELSE <<playersAtom[2 * k - 1]>>
            /\ \A i \in 1..n : Cardinality(PlacesOf(playersAtom[i], teamsAtom)) = 1

\* three players in doubles: a pair and the third player alone
C23_Witness ==
    /\ GeneratedTeams(FALSE)
    /\ tournamentSettingsAtom.gameType = "doubles"
    /\ Len(playersAtom) = 3
    /\ teamsAtom = <<<<1, 2>>, <<3>>>>

\* C24: a creation with fewer than 2 players (createTournamentAtom, or
\* generateTeams forming the teams) fails with an error and changes nothing:
\* the storage, the participants and matches in it, the teams and the
\* tournament-created flag are as before
C24_TooFewCompetitorsRejected ==
    [][Len(playersAtom) < 2 =>
          /\ setupCall'.outcome = "error"
          /\ UNCHANGED <<store, teamsAtom, tournamentCreatedAtom>>]_vars

\* the orders in which the players ps can stand
OrdersOf(ps) == {[i \in 1..Len(ps) |-> ps[f[i]]] : f \in Permutations(1..Len(ps))}

\* the outcomes of the random draws, by the order in which each puts the
\* players ps: the draws of the shuffle of createTournamentAtom, the keys of
\* generateTeams
DrawOutcomes(op, ps) ==
    IF op = "createTournament"
    THEN {<<draws, FisherYates(ps, Len(ps) - 1, draws)>> : draws \in ShuffleDraws(Len(ps))}
    ELSE {<<sort, RandomizedCopy(ps, sort)>> : sort \in SortKeys(Len(ps))}

Randomized ==
    /\ setupCall.op \in {"createTournament", "generateTeams"}
    /\ setupCall.randomizePlayers
    /\ setupCall.outcome # "error"

\* C25: with randomization on, the order used is a permutation of the players
\* entered; every permutation is drawn by some outcome of the random draws and
\* there are as many outcomes as permutations, so each permutation is drawn by
\* the same number of outcomes (one); the list of players entered is not modified
C25_ShuffleIsUniformPermutation ==
    /\ [](Randomized =>
            LET outcomes == DrawOutcomes(setupCall.op, playersAtom)
                orders == OrdersOf(playersAtom)
            IN  /\ setupCall.order \in orders
                /\ {o[2] : o \in outcomes} = orders
                /\ Cardinality(outcomes) = Cardinality(orders))
    /\ [][UNCHANGED playersAtom]_vars

\* four players shuffled so that the last one entered comes first, and the
\* tournament created in that order
C25_Witness ==
    /\ Randomized
    /\ setupCall.op = "createTournament"
    /\ setupCall.outcome = "ok"
    /\ tournamentCreatedAtom
    /\ playersAtom = <<1, 2, 3, 4>>
    /\ setupCall.order = <<4, 1, 2, 3>>
    /\ store.participant[1].name = <<4>>

----------------------------------------------------------------------------
(* Claims about LocalStorage *)

\* the rows a filter is to select: the row with that id for a non-object
\* filter; for an object filter the rows equal to it on every listed field, a
\* null field of the filter matching a null or absent field of the row
Selects(call, item) ==
    IF call.object
    THEN \A key \in DOMAIN call.objectFilter :
            IF call.objectFilter[key] = Null
            THEN key \notin DOMAIN item \/ item[key] = Null
            ELSE key \in DOMAIN item /\ item[key] = call.objectFilter[key]
    ELSE item.id = call.idFilter

\* C27: select returns, update merges the value into, and delete removes
\* exactly the rows the filter selects (at most one row for a non-object
\* filter), whatever the id and the filter
C27_FilterSemantics ==
    [][(driver = "storage" /\ callCount' = callCount + 1) =>
          LET call == lastCall'
              rows == store.match
          IN  /\ ~call.object =>
                   Cardinality({i \in 1..Len(rows) : Selects(call, rows[i])}) <= 1
              /\ call.outcome = "select" =>
                   /\ call.result = SelectSeq(rows, LAMBDA item : Selects(call, item))
                   /\ store' = store
              /\ call.outcome = "update" =>
                   store'.match = [i \in 1..Len(rows) |->
                                      IF Selects(call, rows[i])
                                      THEN Merge(rows[i], call.value) ELSE rows[i]]
              /\ call.outcome = "delete" =>
                   store'.match = SelectSeq(rows, LAMBDA item : ~Selects(call, item))]_vars

----------------------------------------------------------------------------
(* Claims about updateMatch when it fails or overlaps *)

\* C28: whenever updateMatch throws, whether at a check or because a storage
\* write failed part-way, the stored match data is the data before the call
C28_ThrowLeavesStoreUnchanged ==
    lastCall.outcome \notin {"none", "ok"} => store = lastCall.before

BothReturned == \A c \in Invocations : inFlight[c].pc = "returned"

OnTheSameReadyMatch ==
    /\ inFlight[1].matchId = inFlight[2].matchId
    /\ \A c \in Invocations :
         /\ Len(inFlight[c].currentMatch) = 1
         /\ inFlight[c].currentMatch[1].round_id = 1

\* C29: of two updateMatch invocations on the same match that overlap, however
\* their steps between awaits interleave, one records the outcome and
\* advances the winner and the other fails as an already completed match
C29_OverlappingCallsSerialized ==
    (driver = "overlap" /\ BothReturned /\ OnTheSameReadyMatch) =>
        \E c \in Invocations :
            /\ inFlight[c].outcome = "ok"
            /\ inFlight[3 - c].outcome = "completed"

(* Claims about the grand final of the storage-backed engine *)

GrandFinalMatches ==
    SortByRound(SelectSeq(store.match, LAMBDA m : m.group_id = FinalGroup))

FirstGrandFinal == GrandFinalMatches[1]

SecondGrandFinal == GrandFinalMatches[2]

WonByOpponent1(match) ==
    match.status = StatusCompleted /\ match.opponent1.result = "win"

WonByOpponent2(match) ==
    match.status = StatusCompleted /\ match.opponent2.result = "win"

SecondFinalIsReset ==
    /\ SecondGrandFinal.opponent1.id = FirstGrandFinal.opponent1.id
    /\ SecondGrandFinal.opponent2.id = FirstGrandFinal.opponent2.id
    /\ SecondGrandFinal.opponent1.id # NoId
    /\ SecondGrandFinal.opponent2.id # NoId

SecondFinalIsUnbound ==
    /\ SecondGrandFinal.opponent1.id = NoId
    /\ SecondGrandFinal.opponent2.id = NoId
    /\ SecondGrandFinal.status # StatusReady

\* C30: once the first grand final is won by its opponent2, the second grand
\* final holds the first final's opponent1 as opponent1 and the first final's
\* winner as opponent2, and the step that records that win leaves it ready;
\* once the first grand final is won by its opponent1, both slots of the second
\* grand final are unbound and it is not ready, in every later state
C30_GrandFinalReset ==
    /\ [](Len(GrandFinalMatches) = 2 =>
            /\ WonByOpponent2(FirstGrandFinal) =>
                 /\ SecondFinalIsReset
                 /\ SecondGrandFinal.status \in {StatusReady, StatusCompleted}
            /\ WonByOpponent1(FirstGrandFinal) => SecondFinalIsUnbound)
    /\ [][(/\ Len(GrandFinalMatches) = 2
           /\ ~WonByOpponent2(FirstGrandFinal)
           /\ WonByOpponent2(FirstGrandFinal)')
          => SecondGrandFinal'.status = StatusReady]_vars

\* the losers-bracket champion has won the first grand final and the second is
\* bound and ready
C30_Witness ==
    /\ Len(GrandFinalMatches) = 2
    /\ WonByOpponent2(FirstGrandFinal)
    /\ SecondFinalIsReset
    /\ SecondGrandFinal.status = StatusReady

\* the winners-bracket champion has won the first grand final
C30_WitnessNoReset ==
    /\ Len(GrandFinalMatches) = 2
    /\ WonByOpponent1(FirstGrandFinal)
    /\ SecondFinalIsUnbound

(* Claims about readiness in the storage-backed engine *)

BothBound(match) == match.opponent1.id # NoId /\ match.opponent2.id # NoId

\* C31: in the storage-backed engine every stored match with both opponent
\* slots bound and no recorded outcome has status ready (2), and no match with
\* an unbound slot has status ready; so the step that binds the second slot of
\* a match leaves it ready
C31_ReadyIffFullyBound ==
    \A i \in 1..Len(store.match) :
        LET match == store.match[i]
        IN  /\ (BothBound(match) /\ match.status # StatusCompleted)
                  => match.status = StatusReady
            /\ ~BothBound(match) => match.status # StatusReady

\* an advancement has bound the second slot of a later match, which is ready
C31_Witness ==
    /\ lastCall.outcome = "ok"
    /\ \E i \in 1..Len(store.match) :
         /\ store.match[i].round_id > 1
         /\ BothBound(store.match[i])
         /\ store.match[i].status = StatusReady
         /\ ~BothBound(lastCall.before.match[i])

(* Claims about double-elimination advancement in the storage-backed engine *)

\* the number of slots of the matches of a group, from a round on, that hold a participant
SlotsHolding(rows, group, fromRound, id) ==
    Cardinality({<<i, side>> \in (1..Len(rows)) \X {1, 2} :
        /\ rows[i].group_id = group
        /\ rows[i].round_id >= fromRound
        /\ (IF side = 1 THEN rows[i].opponent1.id ELSE rows[i].opponent2.id) = id})

LastRoundOf(rows, group) == MaxRound(SelectSeq(rows, LAMBDA m : m.group_id = group))

StoredWinnerId(match) ==
    IF match.opponent1.result = "win" THEN match.opponent1.id ELSE match.opponent2.id

StoredLoserId(match) ==
    IF match.opponent1.result = "win" THEN match.opponent2.id ELSE match.opponent1.id

\* C32: when a step completes a winners-bracket or losers-bracket match that is
\* not in the last round of its bracket, afterwards its winner holds exactly
\* one slot of the later matches of that bracket, and the loser of a
\* winners-bracket match holds exactly one slot of the losers bracket
C32_NoParticipantDropped ==
    [][\A i \in 1..Len(store.match) :
          (/\ StageType(store) = "double_elimination"
           /\ Len(store'.match) = Len(store.match)
           /\ store.match[i].status # StatusCompleted
           /\ store'.match[i].status = StatusCompleted
           /\ store.match[i].group_id \in {WinnersGroup, LosersGroup}
           /\ store.match[i].round_id < LastRoundOf(store.match, store.match[i].group_id))
          => /\ SlotsHolding(store'.match, store.match[i].group_id,
                             store.match[i].round_id + 1,
                             StoredWinnerId(store'.match[i])) = 1
             /\ store.match[i].group_id = WinnersGroup
                  => SlotsHolding(store'.match, LosersGroup, 0,
                                  StoredLoserId(store'.match[i])) = 1]_vars

(* Claims about advanceTournament and the round pointer *)

CurrentRoundUnfinished ==
    \E i \in 1..Len(matches) : matches[i].round = currentRound /\ matches[i].winner = 0

\* C33: advanceTournament applied to any reachable match list returns the same
\* list and nextRound = currentRound while a match of the current round lacks a
\* winner or isTournamentComplete is true; otherwise what it returns is the
\* list with matches of round currentRound + 1 appended, every existing match
\* unchanged
C33_AdvanceChangesNothingUntilRoundDone ==
    LET adv == advanceTournament(matches, currentRound, tournamentType)
    IN  IF CurrentRoundUnfinished \/ isTournamentComplete(matches, currentRound, tournamentType)
        THEN adv.matches = matches /\ adv.nextRound = currentRound
        ELSE /\ Len(adv.matches) >= Len(matches)
             /\ SubSeq(adv.matches, 1, Len(matches)) = matches
             /\ \A i \in (Len(matches) + 1)..Len(adv.matches) :
                    adv.matches[i].round = currentRound + 1
             /\ adv.nextRound = (IF Len(adv.matches) > Len(matches)
                                  THEN currentRound + 1 ELSE currentRound)

\* advanceTournament has appended a round, in either kind of tournament
C33_Witness ==
    /\ driver = "api"
    /\ currentRound = 2
    /\ \E i \in 1..Len(matches) : matches[i].round = 2
    /\ ~CurrentRoundUnfinished

\* C34: double elimination through handleWinner never gets stuck: in every
\* reachable state where isTournamentComplete is false, the current round has
\* a match that is not a bye and has no winner yet
C34_DoubleEliminationNeverStuck ==
    (DE /\ ~isComplete) => SomeButtonEnabled

(* Claims about who plays whom in the logic engine *)

Plays(match, team) == match.team1 = team \/ match.team2 = team

\* C35: in every reachable state of the logic engine no team is a participant
\* of two different matches that both lack a winner
C35_NoTeamInTwoOpenMatches ==
    \A i, j \in 1..Len(matches) :
        (i # j /\ ~HasWinner(matches[i]) /\ ~HasWinner(matches[j]))
            => \A team \in 1..teamCount :
                   ~(Plays(matches[i], team) /\ Plays(matches[j], team))

(* Claims about knockout accounting and seeding *)

PlayedMatches ==
    {i \in 1..Len(matches) : ~isByeMatch(matches[i]) /\ HasWinner(matches[i])}

WonInRound(team, round) ==
    \E i \in 1..Len(matches) : matches[i].round = round /\ matches[i].winner = team

\* C36: in every completed knockout tournament exactly n - 1 non-bye matches
\* were played, every team but the champion lost exactly one match and the
\* champion none, and every team of a match of round r + 1 won a match of round r
C36_KnockoutAccounting ==
    (KO /\ isComplete) =>
        /\ Cardinality(PlayedMatches) = teamCount - 1
        /\ \A team \in 1..teamCount :
               Losses(team, matches) = (IF team = getChampion THEN 0 ELSE 1)
        /\ \A i \in 1..Len(matches) :
               matches[i].round > 1 =>
                   /\ WonInRound(matches[i].team1, matches[i].round - 1)
                   /\ WonInRound(matches[i].team2, matches[i].round - 1)

\* a completed knockout of 5 teams, with byes on the way
C36_Witness ==
    /\ KO
    /\ isComplete
    /\ teamCount = 5
    /\ getChampion \in 1..teamCount
    /\ Cardinality(PlayedMatches) = 4

RoundOneMatchesOf(team) ==
    {i \in 1..Len(matches) : matches[i].round = 1 /\ Plays(matches[i], team)}

\* C37: createSeededPositions(n) is a permutation of 0..size-1, and every team
\* is in exactly one round-1 match (as one side of a regular match or as both
\* sides of a bye)
C37_SeedingLosesNoTeam ==
    LET positions == createSeededPositions(teamCount)
        size == NextPowerOfTwo(teamCount)
    IN  /\ Len(positions) = size
        /\ {positions[k] : k \in 1..size} = 0..(size - 1)
        /\ \A team \in 1..teamCount : Cardinality(RoundOneMatchesOf(team)) = 1
        /\ \A i \in 1..Len(matches) :
               matches[i].round = 1 =>
                   /\ matches[i].team1 \in 1..teamCount
                   /\ matches[i].team2 \in 1..teamCount

\* a field that is not a power of two has been seeded: round 1 has a bye and
\* a regular match
C37_Witness ==
    /\ teamCount = 6
    /\ currentRound = 1
    /\ \E i \in 1..Len(matches) : matches[i].round = 1 /\ isByeMatch(matches[i])
    /\ \E i \in 1..Len(matches) : matches[i].round = 1 /\ ~isByeMatch(matches[i])

(* Claims about updateMatchWithWinner and the round pointer *)

WinnerIsParticipant(match) ==
    HasWinner(match) => (match.winner = match.team1 \/ match.winner = match.team2)

ChangedMatches == {i \in 1..Len(matches) : matches'[i] # matches[i]}

\* a step keeps the length and order of the existing matches and changes at
\* most the winner of the matches with one id
OnlyWinnerOfOneIdChanges ==
    /\ Len(matches') >= Len(matches)
    /\ \A i \in ChangedMatches :
           /\ matches'[i] = [matches[i] EXCEPT !.winner = matches'[i].winner]
           /\ \A j \in ChangedMatches : matches[j].id = matches[i].id

\* C38: in every state reachable through updateMatchWithWinner each match with
\* a winner has as winner the team of one of its two slots, and a call changes
\* only the winner of the match with the given id, leaving the length, the
\* order and every other match unchanged
C38_WinnerIsOneOfTheTwoTeams ==
    /\ [](\A i \in 1..Len(matches) : WinnerIsParticipant(matches[i]))
    /\ [][OnlyWinnerOfOneIdChanges]_vars

AppendedMatches == {i \in 1..Len(matches') : i > Len(matches)}

\* C39: through handleWinner currentRound is always the highest round among
\* the matches; a reported result leaves it or raises it by 1, and raises it
\* exactly when matches are appended, which are matches of round currentRound + 1
C39_RoundPointer ==
    /\ [](currentRound = MaxRoundOf(matches))
    /\ [][/\ currentRound' \in {currentRound, currentRound + 1}
          /\ Len(matches') >= Len(matches)
          /\ (currentRound' = currentRound + 1) <=> (AppendedMatches # {})
          /\ \A i \in AppendedMatches : matches'[i].round = currentRound + 1]_vars

\* results have moved the round pointer up twice
C39_Witness ==
    /\ driver = "ui"
    /\ currentRound = 3
    /\ \E i \in 1..Len(matches) : matches[i].round = 3

CreationSucceeded == setupCall.op = "createTournament" /\ setupCall.outcome = "ok"

TeamsGeneratedInView ==
    /\ setupCall.op = "generateTeams"
    /\ canGenerateTeams(playersAtom, tournamentSettingsAtom.gameType)

====
